---- MODULE Spec2Model ----
(***************************************************************************)
(* Kyra bytecode subsystem: the emitter (internal/bytecode, emitStmt /     *)
(* emitExpr / patchJump) and the stack machine (internal/kvm, Run /        *)
(* callFunction / returnFromFunction).                                     *)
(*                                                                         *)
(* Numbers (Go float64) are modelled by integers; the programs drawn by    *)
(* Init only produce integral values.  Go slices keep their 0-based        *)
(* offsets in every variable and field; only the access into a TLA+        *)
(* sequence adds 1.                                                        *)
(***************************************************************************)
EXTENDS Integers, Sequences, FiniteSets, TLC

(***************************************************************************)
(* Bounds of the model.                                                    *)
(***************************************************************************)
MaxSteps == 40      \* instructions one run may execute before the model stops it
MaxBelow == 2       \* caller values lying below the arguments of a call
MaxArgs == 2        \* arguments of a call in the hand-assembled modules

(***************************************************************************)
(* Instruction set (internal/bytecode const block).                        *)
(***************************************************************************)
OP_CONST == 1
OP_ADD == 2
OP_SUB == 3
OP_MUL == 4
OP_DIV == 5
OP_MOD == 6
OP_EQ == 7
OP_NEQ == 8
OP_LT == 9
OP_GT == 10
OP_LE == 11
OP_GE == 12
OP_AND == 13
OP_OR == 14
OP_NOT == 15
OP_LOAD == 16
OP_STORE == 17
OP_CALL == 18
OP_RET == 19
OP_JMP == 20
OP_JMPF == 21
OP_POP == 22
OP_EXIT == 23

(***************************************************************************)
(* Values: Go interface{} holding a float64, a string or an int.           *)
(***************************************************************************)
Num(n) == [k |-> "num", n |-> n, s |-> ""]
Str(s) == [k |-> "str", n |-> 0, s |-> s]
IntV(n) == [k |-> "int", n |-> n, s |-> ""]
Nil == [k |-> "nil", n |-> 0, s |-> ""]

IsNum(v) == v.k = "num"

boolToFloat(b) == IF b THEN Num(1) ELSE Num(0)

(***************************************************************************)
(* binary.LittleEndian.PutUint32 / Uint32.  With floored \div and %, byte  *)
(* i of uint32(v) is (v \div 256^i) % 256 for negative v as well.  A value *)
(* read back that needs the top bit (>= 2^31) exceeds every length and     *)
(* offset of the model and is read as MaxInt31.                            *)
(***************************************************************************)
Pow256(i) == CASE i = 0 -> 1 [] i = 1 -> 256 [] i = 2 -> 65536 [] i = 3 -> 16777216

PutUint32(v) == [i \in 1..4 |-> (v \div Pow256(i - 1)) % 256]

MaxInt31 == 2147483647

Uint32(bytes, off) ==
    IF bytes[off + 4] >= 128 THEN MaxInt31
    ELSE bytes[off + 1] + 256 * bytes[off + 2] + 65536 * bytes[off + 3]
            + 16777216 * bytes[off + 4]

(***************************************************************************)
(* Chunk (internal/bytecode).  Code and Constants are the struct's fields. *)
(* The remaining fields are history the emitter itself does not keep:      *)
(* writes[i] counts how often byte i-1 of Code was written, holes is the   *)
(* set of offsets at which the emitter reserved a jump placeholder         *)
(* (its locals jumpPos, elseJump, exitPos), and ifs / whiles / fors /      *)
(* calls / exprs / stmts record the offsets each construct was laid out    *)
(* at.  panic is the message of the Go panic that ended emission, if any.  *)
(***************************************************************************)
NewChunk ==
    [Code |-> <<>>, Constants |-> <<>>, writes |-> <<>>, holes |-> {},
     ifs |-> <<>>, whiles |-> <<>>, fors |-> <<>>, calls |-> <<>>,
     exprs |-> <<>>, stmts |-> <<>>, panic |-> ""]

\* A Go panic unwinds the emitter: once c.panic is set nothing more is emitted.
emit(c, b) ==
    IF c.panic # "" THEN c
    ELSE [c EXCEPT !.Code = Append(@, b), !.writes = Append(@, 1)]

emitInt(c, v) ==
    IF c.panic # "" THEN c
    ELSE [c EXCEPT !.Code = @ \o PutUint32(v), !.writes = @ \o <<1, 1, 1, 1>>]

\* addConst appends and returns the new index: the caller reads the index
\* as NextSlot(c) before the append.
NextSlot(c) == Len(c.Constants)

addConst(c, v) ==
    IF c.panic # "" THEN c ELSE [c EXCEPT !.Constants = Append(@, v)]

\* c.emitInt(0) at a position the emitter remembers for patchJump.
emitHole(c) ==
    IF c.panic # "" THEN c
    ELSE [emitInt(c, 0) EXCEPT !.holes = @ \cup {Len(c.Code)}]

panicWith(c, msg) == IF c.panic # "" THEN c ELSE [c EXCEPT !.panic = msg]

\* A patch that lands one byte past the placeholder.
patchJumpShifted(c, pos) ==
    LET target == Len(c.Code)
        buf == PutUint32(target)
    IN  IF c.panic # "" THEN c
        ELSE [c EXCEPT
            !.Code = [i \in 1..Len(c.Code) |->
                        IF i > pos + 1 /\ i <= pos + 5 THEN buf[i - pos - 1]
                        ELSE c.Code[i]],
            !.writes = [i \in 1..Len(c.Code) |->
                        IF i > pos + 1 /\ i <= pos + 5 THEN c.writes[i] + 1
                        ELSE c.writes[i]]]

patchJump(c, pos) ==
    LET target == Len(c.Code)
        buf == PutUint32(target)
    IN  IF c.panic # "" THEN c
        ELSE [c EXCEPT
            !.Code = [i \in 1..Len(c.Code) |->
                        IF i > pos /\ i <= pos + 4 THEN buf[i - pos] ELSE c.Code[i]],
            !.writes = [i \in 1..Len(c.Code) |->
                        IF i > pos /\ i <= pos + 4 THEN c.writes[i] + 1
                        ELSE c.writes[i]]]

(***************************************************************************)
(* parseNumber: fmt.Sscanf(s, "%f", &v).  A lexeme is the sequence of its  *)
(* characters.  The numbers of the model are integers, so the lexemes     *)
(* handed to it are digit strings: the scan yields their decimal value,    *)
(* and v stays 0 when nothing is scanned.  A lexeme with a fraction has no *)
(* representation here.                                                    *)
(***************************************************************************)
DigitVal(ch) ==
    CASE ch = "0" -> 0 [] ch = "1" -> 1 [] ch = "2" -> 2 [] ch = "3" -> 3
      [] ch = "4" -> 4 [] ch = "5" -> 5 [] ch = "6" -> 6 [] ch = "7" -> 7
      [] ch = "8" -> 8 [] ch = "9" -> 9 [] OTHER -> -1

RECURSIVE ScanDigits(_, _, _)
ScanDigits(s, i, acc) ==
    IF i > Len(s) \/ DigitVal(s[i]) < 0 THEN acc
    ELSE ScanDigits(s, i + 1, 10 * acc + DigitVal(s[i]))

parseNumber(s) == ScanDigits(s, 1, 0)

(***************************************************************************)
(* emitBinaryOp.                                                           *)
(***************************************************************************)
BinaryOps == {"+", "-", "*", "/", "%", "==", "!=", "<", ">", "<=", ">=", "&&", "||"}

BinaryOpcode(op) ==
    CASE op = "+" -> OP_ADD [] op = "-" -> OP_SUB [] op = "*" -> OP_MUL
      [] op = "/" -> OP_DIV [] op = "%" -> OP_MOD [] op = "==" -> OP_EQ
      [] op = "!=" -> OP_NEQ [] op = "<" -> OP_LT [] op = ">" -> OP_GT
      [] op = "<=" -> OP_LE [] op = ">=" -> OP_GE [] op = "&&" -> OP_AND
      [] op = "||" -> OP_OR

emitBinaryOp(c, op) ==
    IF op \in BinaryOps THEN emit(c, BinaryOpcode(op))
    ELSE panicWith(c, "Unknown binary operator")

(***************************************************************************)
(* emitExpr.  An expression is a record whose Kind names the Go type and   *)
(* whose other fields are that type's fields.                              *)
(***************************************************************************)
RECURSIVE emitExpr(_, _)
RECURSIVE emitArgs(_, _, _)

\* The rest of the loop over e.Args once args[i] is emitted; a panic ends it.
argsNext(d, args, i) == IF d.panic # "" THEN d ELSE emitArgs(d, args, i + 1)

\* for _, arg := range e.Args { emitExpr(c, arg) }
emitArgs(c, args, i) ==
    IF i > Len(args) THEN c ELSE argsNext(emitExpr(c, args[i]), args, i)

\* c.emit(OP_CONST); c.emitInt(c.addConst(v))
emitConst(c, v) == emitInt(emit(addConst(c, v), OP_CONST), NextSlot(c))

\* slot := c.addConst(name); c.emit(op); c.emitInt(slot)
emitSlotOp(c, op, name) == emitInt(emit(addConst(c, Str(name)), op), NextSlot(c))

emitUnaryOp(c, op) ==
    CASE op = "-" -> emit(emitConst(c, Num(-1)), OP_MUL)
      [] op = "!" -> emit(c, OP_NOT)
      [] OTHER -> panicWith(c, "Unknown unary operator")

\* c.emit(OP_CALL); c.emitInt(len(e.Args)), with the layout noted in calls.
emitCallOp(c, e, argStart) ==
    IF c.panic # "" THEN c
    ELSE [emitInt(emit(c, OP_CALL), Len(e.Args)) EXCEPT !.calls = Append(@,
            [argStart |-> argStart, callPos |-> Len(c.Code), n |-> Len(e.Args)])]

\* The sub-expressions each case of emitExpr emits first, in the order it
\* emits them (e.Expr; e.Left, e.Right; e.Args).
SubExprs(e) ==
    CASE e.Kind \in {"AssignExpr", "UnaryExpr", "ParenExpr"} -> <<e.Expr>>
      [] e.Kind = "BinaryExpr" -> <<e.Left, e.Right>>
      [] e.Kind = "CallExpr" -> e.Args
      [] OTHER -> <<>>

\* What each case of emitExpr emits after its sub-expressions; start is
\* len(c.Code) on entry to emitExpr.
emitExprCase(c, e, start) ==
    CASE e.Kind = "NumberExpr" -> emitConst(c, Num(parseNumber(e.Value)))
      [] e.Kind = "StringExpr" -> emitConst(c, Str(e.Value))
      [] e.Kind = "BoolExpr" -> emitConst(c, IF e.Value THEN Num(1) ELSE Num(0))
      [] e.Kind = "IdentExpr" -> emitSlotOp(c, OP_LOAD, e.Name)
      [] e.Kind = "AssignExpr" -> emitSlotOp(c, OP_STORE, e.Name)
      [] e.Kind = "UnaryExpr" -> emitUnaryOp(c, e.Op)
      [] e.Kind = "BinaryExpr" -> emitBinaryOp(c, e.Op)
      [] e.Kind = "CallExpr" -> emitCallOp(c, e, start)
      [] e.Kind = "MemberExpr" -> panicWith(c, "Member access not implemented yet")
      [] e.Kind = "ParenExpr" -> c
      [] OTHER -> panicWith(c, "Unknown expression type")

\* The code range [start, end) a finished emitExpr call produced.
noteExpr(c, e, d) ==
    IF d.panic # "" THEN d
    ELSE [d EXCEPT !.exprs = Append(@,
            [start |-> Len(c.Code), end |-> Len(d.Code), Kind |-> e.Kind])]

emitExpr(c, e) ==
    noteExpr(c, e, emitExprCase(emitArgs(c, SubExprs(e), 1), e, Len(c.Code)))

(***************************************************************************)
(* emitStmt.  A statement is a record whose Kind names the Go type.  The   *)
(* compound statements are emitted in the order of the source, one         *)
(* operator per stretch between two nested emissions; the operator's last  *)
(* parameter is the chunk as the stretch before it left it, and m is the   *)
(* layout (the offsets the Go locals hold) gathered so far.                *)
(***************************************************************************)
RECURSIVE emitStmt(_, _)
RECURSIVE emitBlock(_, _, _)

\* The rest of the loop over a block once block[i] is emitted.
blockNext(d, block, i) == IF d.panic # "" THEN d ELSE emitBlock(d, block, i + 1)

\* for _, st := range block { emitStmt(c, st) }
emitBlock(c, block, i) ==
    IF i > Len(block) THEN c ELSE blockNext(emitStmt(c, block[i]), block, i)

\* c.emit(op); pos := len(c.Code); c.emitInt(0)
emitJump(c, op) == emitHole(emit(c, op))

noteIf(m, d) ==
    IF d.panic # "" THEN d
    ELSE [d EXCEPT !.ifs = Append(@, [m EXCEPT !.end = Len(d.Code)])]

\* else branch absent: patchJump(c, jumpPos)
ifNoElse(m, d3) ==
    noteIf([m EXCEPT !.thenEnd = Len(d3.Code), !.elseStart = Len(d3.Code),
                     !.elseEnd = Len(d3.Code)],
           patchJump(d3, m.jumpPos))

\* patchJump(c, elseJump) after the else block
ifElseEnd(m, d6) ==
    noteIf([m EXCEPT !.elseEnd = Len(d6.Code)], patchJump(d6, m.elseJump))

\* patchJump(c, jumpPos); the else block
ifElse(s, m, d4) ==
    ifElseEnd([m EXCEPT !.hasElse = TRUE, !.elseJump = Len(d4.Code) - 4,
                        !.elseStart = Len(d4.Code)],
              emitBlock(patchJump(d4, m.jumpPos), s.Else, 1))

\* if len(s.Else) > 0 { c.emit(OP_JMP); elseJump := len(c.Code); c.emitInt(0) ...
ifAfterThen(s, m, d3) ==
    IF d3.panic # "" THEN d3
    ELSE IF Len(s.Else) > 0
         THEN ifElse(s, [m EXCEPT !.thenEnd = Len(d3.Code)], emitJump(d3, OP_JMP))
         ELSE ifNoElse(m, d3)

\* the then block, after jumpPos := len(c.Code); c.emitInt(0)
ifThen(s, m, d2) ==
    IF d2.panic # "" THEN d2
    ELSE ifAfterThen(s, [m EXCEPT !.jumpPos = Len(d2.Code) - 4,
                                  !.thenStart = Len(d2.Code)],
                     emitBlock(d2, s.Then, 1))

emitIf(c, s) ==
    ifThen(s, [condStart |-> Len(c.Code), jumpPos |-> 0, thenStart |-> 0,
               thenEnd |-> 0, hasElse |-> FALSE, elseJump |-> 0,
               elseStart |-> 0, elseEnd |-> 0, end |-> 0],
           emitJump(emitExpr(c, s.Cond), OP_JMPF))

noteWhile(m, d) ==
    IF d.panic # "" THEN d
    ELSE [d EXCEPT !.whiles = Append(@, [m EXCEPT !.end = Len(d.Code)])]

\* c.emit(OP_JMP); c.emitInt(loopStart); patchJump(c, exitPos)
whileEnd(m, d3) ==
    noteWhile([m EXCEPT !.bodyEnd = Len(d3.Code)],
              patchJump(emitInt(emit(d3, OP_JMP), m.loopStart), m.exitPos))

\* the body, after exitPos := len(c.Code); c.emitInt(0)
whileBody(s, m, d2) ==
    IF d2.panic # "" THEN d2
    ELSE whileEnd([m EXCEPT !.exitPos = Len(d2.Code) - 4,
                            !.bodyStart = Len(d2.Code)],
                  emitBlock(d2, s.Body, 1))

emitWhile(c, s) ==
    whileBody(s, [loopStart |-> Len(c.Code), exitPos |-> 0, bodyStart |-> 0,
                  bodyEnd |-> 0, end |-> 0],
              emitJump(emitExpr(c, s.Cond), OP_JMPF))

noteFor(m, d) ==
    IF d.panic # "" THEN d
    ELSE [d EXCEPT !.fors = Append(@, [m EXCEPT !.end = Len(d.Code)])]

\* c.emit(OP_JMP); c.emitInt(loopStart); patchJump(c, exitPos)
forEnd(m, d11) ==
    noteFor([m EXCEPT !.backJmp = Len(d11.Code)],
            patchJump(emitInt(emit(d11, OP_JMP), m.loopStart), m.exitPos))

\* i = i + 1
forIncr(m, d8) ==
    IF d8.panic # "" THEN d8
    ELSE forEnd([m EXCEPT !.bodyEnd = Len(d8.Code)],
                emitInt(emit(emit(emitConst(emitInt(emit(d8, OP_LOAD), m.iSlot),
                                            Num(1)),
                                  OP_ADD), OP_STORE), m.iSlot))

\* the body, after exitPos := len(c.Code); c.emitInt(0)
forBody(s, m, d7) ==
    forIncr([m EXCEPT !.exitPos = Len(d7.Code) - 4, !.bodyStart = Len(d7.Code)],
            emitBlock(d7, s.Body, 1))

\* A loop start taken on entry to the statement, before the limit expression.
forLoopStartEarly(c, d) == Len(c.Code)

\* loopStart := len(c.Code), taken after the limit and the induction slot are set up.
forLoopStart(c, d) == Len(d.Code)

\* the guard: LOAD i; LOAD limit; GE; JMPF exit
forGuard(c, s, m, d4) ==
    forBody(s, [m EXCEPT !.loopStart = forLoopStart(c, d4)],
            emitJump(emit(emitInt(emit(emitInt(emit(d4, OP_LOAD), m.iSlot),
                                       OP_LOAD), m.limitSlot),
                          OP_GE), OP_JMPF))

\* iSlot := c.addConst(s.VarName); CONST 0; STORE iSlot
forInit(c, s, m, d2) ==
    forGuard(c, s, [m EXCEPT !.iSlot = NextSlot(d2)],
             emitInt(emit(emitConst(addConst(d2, Str(s.VarName)), Num(0)),
                          OP_STORE), NextSlot(d2)))

\* limitSlot := c.addConst(s.VarName + "_limit"); STORE limitSlot
forLimit(c, s, m, d1) ==
    IF d1.panic # "" THEN d1
    ELSE forInit(c, s, [m EXCEPT !.limitEnd = Len(d1.Code), !.limitSlot = NextSlot(d1)],
                 emitSlotOp(d1, OP_STORE, s.VarName \o "_limit"))

emitFor(c, s) ==
    forLimit(c, s, [limitStart |-> Len(c.Code), limitEnd |-> 0, limitSlot |-> 0,
                    iSlot |-> 0, loopStart |-> 0, exitPos |-> 0, bodyStart |-> 0,
                    bodyEnd |-> 0, backJmp |-> 0, end |-> 0],
             emitExpr(c, s.Limit))

emitStmtCase(c, s) ==
    CASE s.Kind = "ExprStmt" -> emit(emitExpr(c, s.Expr), OP_POP)
      [] s.Kind = "LetStmt" -> emitSlotOp(emitExpr(c, s.Expr), OP_STORE, s.Name)
      [] s.Kind = "ReturnStmt" -> emit(emitExpr(c, s.Value), OP_RET)
      [] s.Kind = "ExitStmt" -> emit(c, OP_EXIT)
      [] s.Kind = "PassStmt" -> c
      [] s.Kind = "IfStmt" -> emitIf(c, s)
      [] s.Kind = "WhileStmt" -> emitWhile(c, s)
      [] s.Kind = "ForStmt" -> emitFor(c, s)
      [] OTHER -> panicWith(c, "Unknown statement type")

\* The code range [start, end) a finished emitStmt call produced.
noteStmt(c, s, d) ==
    IF d.panic # "" THEN d
    ELSE [d EXCEPT !.stmts = Append(@,
            [start |-> Len(c.Code), end |-> Len(d.Code), Kind |-> s.Kind])]

emitStmt(c, s) == noteStmt(c, s, emitStmtCase(c, s))

(***************************************************************************)
(* State.                                                                  *)
(*   ast        parser.AST.TopLevel handed to Emit (empty for a module     *)
(*              that was assembled by hand)                                *)
(*   pos        Emit's position in ast.TopLevel                            *)
(*   mainChunk  Emit's mainChunk                                           *)
(*   module     the decoded module: function table and main chunk          *)
(*   pc         "emit", "load", "run" or "done"                            *)
(*   code, constants, ip, sp, stack, callStack   the VM struct; code and   *)
(*              constants are references (MainRef or a function index)     *)
(*   pools      the constant pools the references point to                 *)
(*   status, err, result   how Run ended: "running", "returned" (outer     *)
(*              OP_RET), "exited" (OP_EXIT), "ended" (ip ran off the       *)
(*              code), "panic" with err, "capped" (model bound)            *)
(*   trace      history: the instructions executed so far, each with the   *)
(*              machine it was fetched in                                  *)
(*   buf, bufCap   the byte slice handed to loadModule: its bytes (len) and *)
(*              its capacity; the bytes between len and cap read as zero   *)
(*   intBits    the width of Go's int in the build (32 or 64)              *)
(*   loaded     what loadModule made of buf                                *)
(*   input      history: how buf was made (from which module, and whether  *)
(*              it was then shortened or its header damaged)               *)
(*   heap, inst    several VMs in one process: heap holds the constants    *)
(*              slices that loadModule allocated, inst the VMs made from   *)
(*              the module so far, each with the address of its slice and  *)
(*              the number of instructions it has executed                 *)
(***************************************************************************)
VARIABLES ast, pos, mainChunk, module, pc,
          code, constants, ip, sp, stack, callStack, pools,
          status, err, result, trace,
          buf, bufCap, intBits, loaded, input,
          heap, inst,
          source, lexer, lexed, parsed

vars == <<ast, pos, mainChunk, module, pc, code, constants, ip, sp, stack,
          callStack, pools, status, err, result, trace,
          buf, bufCap, intBits, loaded, input, heap, inst,
          source, lexer, lexed, parsed>>

loadVars == <<buf, bufCap, intBits, loaded, input>>

twoVars == <<heap, inst>>

\* The front end: the source text under compilation, the Lexer, the calls
\* of nextToken so far (the lexer before the call and the token answered)
\* and the parser's result.
frontVars == <<source, lexer, lexed, parsed>>

NotParsed == [done |-> FALSE]

\* No source text is being compiled.
FrontIdle ==
    /\ source = [what |-> "none"] /\ lexer = [src |-> <<>>]
    /\ lexed = <<>> /\ parsed = NotParsed

MainRef == -1

CodeOf(ref) == IF ref = MainRef THEN module.main.code ELSE module.fns[ref + 1].code

\* The machine as one record, so that the helpers compose as in the Go code.
Machine ==
    [code |-> code, constants |-> constants, ip |-> ip, sp |-> sp,
     stack |-> stack, callStack |-> callStack, pools |-> pools,
     status |-> status, err |-> err, result |-> result]

Panic(m, msg) ==
    IF m.status # "running" THEN m ELSE [m EXCEPT !.status = "panic", !.err = msg]

(***************************************************************************)
(* push / pop.  append writes at len(stack), pop reads at sp.              *)
(***************************************************************************)
push(m, v) ==
    IF m.status # "running" THEN m
    ELSE [m EXCEPT !.stack = Append(@, v), !.sp = @ + 1]

\* A pop without the test for an empty stack: the index sp - 1 is checked
\* by the runtime alone.
popUnguarded(m) ==
    IF m.status # "running" THEN [m |-> m, v |-> Nil]
    ELSE IF m.sp - 1 < 0 \/ m.sp - 1 >= Len(m.stack)
         THEN [m |-> Panic([m EXCEPT !.sp = @ - 1], "index out of range"), v |-> Nil]
    ELSE [m |-> [m EXCEPT !.sp = @ - 1, !.stack = SubSeq(@, 1, m.sp - 1)],
          v |-> m.stack[m.sp]]

pop(m) ==
    IF m.status # "running" THEN [m |-> m, v |-> Nil]
    ELSE IF m.sp = 0 THEN [m |-> Panic(m, "Stack underflow"), v |-> Nil]
    ELSE IF m.sp - 1 >= Len(m.stack)
         THEN [m |-> Panic([m EXCEPT !.sp = @ - 1], "index out of range"), v |-> Nil]
    ELSE [m |-> [m EXCEPT !.sp = @ - 1, !.stack = SubSeq(@, 1, m.sp - 1)],
          v |-> m.stack[m.sp]]

\* A pop that takes a value of any type where a float64 is asked for.
popAnyType(m) == pop(m)

\* vm.pop().(float64)
popFloat(m) ==
    LET p == pop(m)
    IN  IF p.m.status = "running" /\ ~IsNum(p.v)
        THEN [m |-> Panic(p.m, "interface conversion"), v |-> Nil]
        ELSE p

readInt(m) ==
    IF m.status # "running" THEN [m |-> m, v |-> 0]
    ELSE IF m.ip + 4 > Len(CodeOf(m.code))
         THEN [m |-> Panic(m, "index out of range"), v |-> 0]
    ELSE [m |-> [m EXCEPT !.ip = @ + 4], v |-> Uint32(CodeOf(m.code), m.ip)]

\* vm.constants[idx]
PoolOf(m) == m.pools[m.constants + 2]

(***************************************************************************)
(* Arithmetic on float64, for the integral values of the model.  A         *)
(* quotient or remainder that is not an integer (or is Inf / NaN) has no   *)
(* representation here: the run is stopped with status "capped".           *)
(***************************************************************************)
Abs(x) == IF x < 0 THEN -x ELSE x

Representable(op, a, b) ==
    CASE op = OP_DIV -> b # 0 /\ Abs(a) % Abs(b) = 0
      [] op = OP_MOD -> b # 0
      [] OTHER -> TRUE

Arith(op, a, b) ==
    CASE op = OP_ADD -> Num(a + b)
      [] op = OP_SUB -> Num(a - b)
      [] op = OP_MUL -> Num(a * b)
      [] op = OP_DIV ->
            Num((IF (a < 0) = (b < 0) THEN 1 ELSE -1) * (Abs(a) \div Abs(b)))
      [] op = OP_MOD -> Num((IF a < 0 THEN -1 ELSE 1) * (Abs(a) % Abs(b)))
      [] op = OP_LT -> boolToFloat(a < b)
      [] op = OP_GT -> boolToFloat(a > b)
      [] op = OP_LE -> boolToFloat(a <= b)
      [] op = OP_GE -> boolToFloat(a >= b)
      [] op = OP_AND -> boolToFloat(a # 0 /\ b # 0)
      [] op = OP_OR -> boolToFloat(a # 0 \/ b # 0)

\* b := vm.pop().(float64); a := vm.pop().(float64); vm.push(a op b)
execBinary(m, op) ==
    LET pb == popFloat(m)
        pa == popFloat(pb.m)
    IN  IF pa.m.status # "running" THEN pa.m
        ELSE IF ~Representable(op, pa.v.n, pb.v.n)
             THEN [pa.m EXCEPT !.status = "capped"]
        ELSE push(pa.m, Arith(op, pa.v.n, pb.v.n))

\* An equality that compares the contents and not the dynamic type.
ValEqUntyped(a, b) == a.n = b.n /\ a.s = b.s

\* Go's == on interface{}: same dynamic type and same value.
ValEq(a, b) == a.k = b.k /\ a.n = b.n /\ a.s = b.s

execEq(m, negate) ==
    LET pb == pop(m)
        pa == pop(pb.m)
    IN  push(pa.m, boolToFloat(ValEq(pa.v, pb.v) # negate))

execNot(m) ==
    LET pa == popFloat(m)
    IN  push(pa.m, boolToFloat(pa.v.n = 0))

\* OP_CONST and OP_LOAD: idx := vm.readInt(); vm.push(vm.constants[idx])
execLoad(m) ==
    LET r == readInt(m)
    IN  IF r.m.status # "running" THEN r.m
        ELSE IF r.v >= Len(PoolOf(r.m)) THEN Panic(r.m, "index out of range")
        ELSE push(r.m, PoolOf(r.m)[r.v + 1])

\* OP_STORE: idx := vm.readInt(); val := vm.pop(); vm.constants[idx] = val
execStore(m) ==
    LET r == readInt(m)
        p == pop(r.m)
    IN  IF p.m.status # "running" THEN p.m
        ELSE IF r.v >= Len(PoolOf(p.m)) THEN Panic(p.m, "index out of range")
        ELSE [p.m EXCEPT !.pools[p.m.constants + 2][r.v + 1] = p.v]

execJmp(m) ==
    LET r == readInt(m)
    IN  IF r.m.status # "running" THEN r.m ELSE [r.m EXCEPT !.ip = r.v]

\* A conditional jump taken on a non-zero condition.
execJmpfOnTrue(m) ==
    LET r == readInt(m)
        p == popFloat(r.m)
    IN  IF p.m.status # "running" THEN p.m
        ELSE IF p.v.n # 0 THEN [p.m EXCEPT !.ip = r.v]
        ELSE p.m

execJmpf(m) ==
    LET r == readInt(m)
        p == popFloat(r.m)
    IN  IF p.m.status # "running" THEN p.m
        ELSE IF p.v.n = 0 THEN [p.m EXCEPT !.ip = r.v]
        ELSE p.m

(***************************************************************************)
(* loadFunction (internal/kvm, functions file): resolves a function        *)
(* identifier to the function's code and constant pool; an identifier      *)
(* outside the function table is a fatal runtime error.                    *)
(***************************************************************************)
loadFunction(fnID) ==
    IF fnID >= 0 /\ fnID < Len(module.fns)
    THEN [ok |-> TRUE, code |-> fnID, consts |-> fnID]
    ELSE [ok |-> FALSE, code |-> MainRef, consts |-> MainRef]

(***************************************************************************)
(* callFunction / returnFromFunction.                                      *)
(***************************************************************************)
\* Frame{ipBackup: vm.ip, spBackup: vm.sp - argCount, code: vm.code, consts: vm.constants}
NewFrame(m, argCount) ==
    [ipBackup |-> m.ip, spBackup |-> m.sp - argCount,
     code |-> m.code, consts |-> m.constants]

\* for i := 0; i < argCount; i++ { vm.push(vm.stack[frame.spBackup+i]) }
RECURSIVE copyArgs(_, _, _, _)
copyArgs(m, spBackup, argCount, i) ==
    IF i >= argCount \/ m.status # "running" THEN m
    ELSE IF spBackup + i < 0 \/ spBackup + i >= Len(m.stack)
         THEN Panic(m, "index out of range")
    ELSE copyArgs(push(m, m.stack[spBackup + i + 1]), spBackup, argCount, i + 1)

callFunction(m, fnID, argCount) ==
    LET fn == loadFunction(fnID)
        frame == NewFrame(m, argCount)
    IN  IF m.status # "running" THEN m
        ELSE IF ~fn.ok THEN Panic(m, "unknown function")
        ELSE copyArgs([m EXCEPT !.callStack = Append(@, frame),
                                !.code = fn.code, !.constants = fn.consts,
                                !.ip = 0, !.sp = 0],
                      frame.spBackup, argCount, 0)

\* A return that leaves the instruction pointer where the callee stopped.
restoreFrameKeepIp(m, frame) ==
    [m EXCEPT !.code = frame.code, !.constants = frame.consts,
              !.sp = frame.spBackup]

\* vm.code, vm.constants, vm.ip, vm.sp = frame.*
restoreFrame(m, frame) ==
    [m EXCEPT !.code = frame.code, !.constants = frame.consts,
              !.ip = frame.ipBackup, !.sp = frame.spBackup]

\* A return that restores the caller but leaves its frame on the call stack.
returnKeepingFrame(m) ==
    LET p == pop(m)
        frame == p.m.callStack[Len(p.m.callStack)]
    IN  IF p.m.status # "running" THEN p.m
        ELSE push(restoreFrame(p.m, frame), p.v)

returnFromFunction(m) ==
    LET p == pop(m)
        frame == p.m.callStack[Len(p.m.callStack)]
    IN  IF p.m.status # "running" THEN p.m
        ELSE push(restoreFrame(
                    [p.m EXCEPT !.callStack = SubSeq(@, 1, Len(@) - 1)], frame),
                  p.v)

\* OP_CALL: argCount := vm.readInt(); fnID := int(vm.pop().(float64))
execCall(m) ==
    LET r == readInt(m)
        p == popFloat(r.m)
    IN  callFunction(p.m, p.v.n, r.v)

\* OP_RET
execRet(m) ==
    IF Len(m.callStack) = 0
    THEN LET p == pop(m)
         IN  IF p.m.status # "running" THEN p.m
             ELSE [p.m EXCEPT !.status = "returned", !.result = p.v]
    ELSE returnFromFunction(m)

\* A halt that leaves the activation as a return does.
execExitAsRet(m) == execRet(m)

\* OP_EXIT: return nil
execExit(m) == [m EXCEPT !.status = "exited", !.result = Nil]

(***************************************************************************)
(* Run: one iteration of the loop  for vm.ip < len(vm.code) { ... }.       *)
(***************************************************************************)
ArithOps == {OP_ADD, OP_SUB, OP_MUL, OP_DIV, OP_MOD, OP_LT, OP_GT, OP_LE,
             OP_GE, OP_AND, OP_OR}

exec(m, op) ==
    CASE op \in {OP_CONST, OP_LOAD} -> execLoad(m)
      [] op \in ArithOps -> execBinary(m, op)
      [] op = OP_EQ -> execEq(m, FALSE)
      [] op = OP_NEQ -> execEq(m, TRUE)
      [] op = OP_NOT -> execNot(m)
      [] op = OP_STORE -> execStore(m)
      [] op = OP_CALL -> execCall(m)
      [] op = OP_RET -> execRet(m)
      [] op = OP_JMP -> execJmp(m)
      [] op = OP_JMPF -> execJmpf(m)
      [] op = OP_POP -> pop(m).m
      [] op = OP_EXIT -> execExit(m)
      [] OTHER -> Panic(m, "Unknown opcode")

RunIteration(m) ==
    IF m.ip >= Len(CodeOf(m.code))
    THEN [m EXCEPT !.status = "ended", !.result = Nil]
    ELSE exec([m EXCEPT !.ip = @ + 1], CodeOf(m.code)[m.ip + 1])

(***************************************************************************)
(* The AST the front end supplies (parser.Expr / parser.Stmt).             *)
(***************************************************************************)
NumberExpr(lexeme) == [Kind |-> "NumberExpr", Value |-> lexeme]
StringExpr(v) == [Kind |-> "StringExpr", Value |-> v]
BoolExpr(b) == [Kind |-> "BoolExpr", Value |-> b]
IdentExpr(name) == [Kind |-> "IdentExpr", Name |-> name]
AssignExpr(name, e) == [Kind |-> "AssignExpr", Name |-> name, Expr |-> e]
UnaryExpr(op, e) == [Kind |-> "UnaryExpr", Op |-> op, Expr |-> e]
BinaryExpr(l, op, r) == [Kind |-> "BinaryExpr", Left |-> l, Op |-> op, Right |-> r]
CallExpr(callee, args) == [Kind |-> "CallExpr", Callee |-> callee, Args |-> args]
ParenExpr(e) == [Kind |-> "ParenExpr", Expr |-> e]

ExprStmt(e) == [Kind |-> "ExprStmt", Expr |-> e]
LetStmt(name, e) == [Kind |-> "LetStmt", Name |-> name, Expr |-> e]
PassStmt == [Kind |-> "PassStmt"]
IfStmt(cond, then, else) ==
    [Kind |-> "IfStmt", Cond |-> cond, Then |-> then, Else |-> else]
WhileStmt(cond, body) == [Kind |-> "WhileStmt", Cond |-> cond, Body |-> body]
ForStmt(name, limit, body) ==
    [Kind |-> "ForStmt", VarName |-> name, Limit |-> limit, Body |-> body]

(***************************************************************************)
(* The programs handed to Emit.                                            *)
(***************************************************************************)
DigitChar(n) ==
    CASE n = 0 -> "0" [] n = 1 -> "1" [] n = 2 -> "2" [] n = 3 -> "3"
      [] n = 4 -> "4" [] n = 5 -> "5" [] n = 6 -> "6" [] n = 7 -> "7"
      [] n = 8 -> "8" [] n = 9 -> "9"

Lit(n) == NumberExpr(IF n < 10 THEN <<DigitChar(n)>>
                     ELSE <<DigitChar(n \div 10), DigitChar(n % 10)>>)

Atoms ==
    {Lit(0), Lit(1), Lit(2), Lit(12), StringExpr("s"), BoolExpr(TRUE),
     BoolExpr(FALSE), IdentExpr("x")}

CallArgs == {[i \in 1..n |-> Lit(i)] : n \in 0..MaxArgs}

Exprs ==
    Atoms
    \cup {UnaryExpr(op, a) : op \in {"-", "!"}, a \in {Lit(0), Lit(1), StringExpr("s")}}
    \cup {BinaryExpr(a, op, Lit(2)) : op \in BinaryOps, a \in {Lit(1), Lit(2)}}
    \cup {BinaryExpr(StringExpr("s"), op, a) :
            op \in {"+", "==", "!="}, a \in {Lit(1), StringExpr("s")}}
    \cup {AssignExpr("x", Lit(1)), AssignExpr("x", AssignExpr("y", Lit(2))),
          ParenExpr(Lit(1)), ParenExpr(BinaryExpr(Lit(1), "+", Lit(2))),
          BinaryExpr(Lit(2), "*", ParenExpr(BinaryExpr(Lit(1), "+", Lit(2)))),
          BinaryExpr(Lit(1), "+", AssignExpr("x", Lit(2))),
          UnaryExpr("-", UnaryExpr("-", Lit(1))),
          BinaryExpr(Lit(1), "/", Lit(0)), BinaryExpr(Lit(2), "%", Lit(0))}
    \cup {CallExpr(IdentExpr("f"), args) : args \in CallArgs}
    \cup {BinaryExpr(Lit(1), "+", CallExpr(IdentExpr("f"), args)) : args \in CallArgs}

SimpleStmts ==
    {ExprStmt(e) : e \in Exprs} \cup {LetStmt("x", e) : e \in Exprs} \cup {PassStmt}

Conds ==
    {Lit(0), Lit(1), Lit(2), BoolExpr(TRUE), BoolExpr(FALSE),
     BinaryExpr(Lit(1), "<", Lit(2)), BinaryExpr(Lit(2), "<", Lit(1)),
     UnaryExpr("!", Lit(0)), StringExpr("s"), IdentExpr("x")}

Blocks ==
    {<<PassStmt>>, <<LetStmt("y", Lit(1))>>, <<ExprStmt(Lit(2))>>,
     <<ExprStmt(AssignExpr("x", Lit(1)))>>,
     <<LetStmt("y", Lit(1)), ExprStmt(Lit(2))>>}

MaxLimit == 3       \* largest literal limit of a counted loop

Limits ==
    {Lit(n) : n \in 0..MaxLimit}
    \cup {UnaryExpr("-", Lit(1)), BinaryExpr(Lit(1), "+", Lit(1))}

FlatCompound ==
    {IfStmt(c, t, e) : c \in Conds, t \in Blocks,
                       e \in {<<>>, <<PassStmt>>, <<LetStmt("z", Lit(2))>>,
                              <<ExprStmt(Lit(1)), LetStmt("z", Lit(2))>>}}
    \cup {WhileStmt(c, b) : c \in Conds, b \in Blocks}
    \cup {ForStmt("i", l, b) : l \in Limits, b \in Blocks}

NestedCompound ==
    {IfStmt(c, <<WhileStmt(Lit(0), <<PassStmt>>)>>, <<ForStmt("i", l, <<PassStmt>>)>>) :
        c \in {Lit(0), Lit(1)}, l \in {Lit(0), Lit(2)}}
    \cup {IfStmt(c, <<IfStmt(d, <<LetStmt("a", Lit(1))>>, <<LetStmt("b", Lit(2))>>)>>,
                    <<IfStmt(d, <<LetStmt("c", Lit(1))>>, <<>>)>>) :
            c \in {Lit(0), Lit(1)}, d \in {BoolExpr(TRUE), BoolExpr(FALSE)}}
    \cup {WhileStmt(Lit(1), <<IfStmt(c, <<PassStmt>>, <<LetStmt("y", Lit(1))>>)>>) :
            c \in {Lit(0), Lit(1)}}
    \cup {WhileStmt(Lit(1), <<ForStmt("i", l, <<PassStmt>>)>>) : l \in {Lit(1), Lit(2)}}
    \cup {ForStmt("i", l, <<IfStmt(c, <<LetStmt("y", Lit(1))>>, <<PassStmt>>)>>) :
            l \in {Lit(0), Lit(1)}, c \in {Lit(0), Lit(1)}}
    \cup {ForStmt("i", Lit(0), <<ForStmt("j", l, <<LetStmt("y", Lit(1))>>)>>) :
            l \in {Lit(0), Lit(1)}}
    \cup {ForStmt("i", Lit(0), <<WhileStmt(Lit(0), <<PassStmt>>)>>)}

Programs ==
    {<<s>> : s \in SimpleStmts \cup FlatCompound \cup NestedCompound}
    \cup {<<s, LetStmt("z", Lit(2))>> : s \in NestedCompound}
    \cup {<<LetStmt("x", Lit(1)), s>> :
            s \in {IfStmt(IdentExpr("x"), <<PassStmt>>, <<>>),
                   WhileStmt(IdentExpr("x"), <<PassStmt>>),
                   ForStmt("i", IdentExpr("x"), <<PassStmt>>),
                   ExprStmt(IdentExpr("x"))}}

(***************************************************************************)
(* Hand-assembled modules for the call protocol: main pushes k caller      *)
(* values, n arguments and the identifier of function 0, calls it and      *)
(* returns what is on top afterwards.                                      *)
(***************************************************************************)
RECURSIVE Asm(_)
Asm(ins) ==
    IF ins = <<>> THEN <<>>
    ELSE (IF Len(Head(ins)) = 1 THEN <<Head(ins)[1]>>
          ELSE <<Head(ins)[1]>> \o PutUint32(Head(ins)[2])) \o Asm(Tail(ins))

CallerMain(k, n) ==
    [code |-> Asm([i \in 1..(k + n + 1) |-> <<OP_CONST, i - 1>>]
                  \o <<<<OP_CALL, n>>, <<OP_RET>>>>),
     consts |-> [i \in 1..(k + n + 1) |->
                    IF i <= k THEN Num(10 + i)
                    ELSE IF i <= k + n THEN Num(20 + (i - k))
                    ELSE Num(0)]]

CalleeConsts == <<Num(99), Num(98), Num(1), Str("a"), Str("b"), Str("c")>>

CalleeBodies(n) ==
    {<<<<OP_CONST, 0>>, <<OP_RET>>>>,
     <<<<OP_CONST, 1>>, <<OP_CONST, 0>>, <<OP_RET>>>>,
     [i \in 1..n |-> <<OP_STORE, 2 + i>>] \o <<<<OP_CONST, 0>>, <<OP_RET>>>>,
     [i \in 1..n |-> <<OP_POP>>] \o <<<<OP_CONST, 0>>, <<OP_RET>>>>,
     <<<<OP_CONST, 1>>, <<OP_CONST, 2>>, <<OP_CALL, 1>>, <<OP_RET>>>>,
     <<<<OP_CONST, 2>>, <<OP_CALL, 0>>, <<OP_RET>>>>,
     <<<<OP_RET>>>>,
     <<<<OP_EXIT>>>>}

InnerFn == [code |-> Asm(<<<<OP_CONST, 0>>, <<OP_RET>>>>), consts |-> <<Num(97)>>]

CallModulesOf(n) ==
    {[fns |-> <<[code |-> Asm(b), consts |-> CalleeConsts], InnerFn>>,
      main |-> CallerMain(k, n)] :
        k \in 0..MaxBelow, b \in CalleeBodies(n)}

CallModules == UNION {CallModulesOf(n) : n \in 0..MaxArgs}

\* Modules that run one popping opcode on zero to MaxOperands operands of
\* every kind, and then go on (CONST; RET).
MaxOperands == 2

OperandValues == {Num(1), Num(2), Str("a"), Str("b"), IntV(1), IntV(2)}

OperandSeqs == UNION {[1..n -> OperandValues] : n \in 0..MaxOperands}

PoppingOps == ArithOps \cup {OP_EQ, OP_NEQ, OP_NOT, OP_POP, OP_JMPF, OP_STORE}

OperandMain(vals, op) ==
    [code |-> Asm([i \in 1..Len(vals) |-> <<OP_CONST, i - 1>>]
                  \o <<IF op \in {OP_JMPF, OP_STORE} THEN <<op, 0>> ELSE <<op>>,
                       <<OP_CONST, Len(vals)>>, <<OP_RET>>>>),
     consts |-> vals \o <<Num(7)>>]

OperandModules ==
    {[fns |-> <<>>, main |-> OperandMain(vals, op)] :
        vals \in OperandSeqs, op \in PoppingOps}

\* Modules whose main, after a call has returned, pops more than the
\* k + 1 values it then holds.
DrainMain(k) ==
    [code |-> Asm([i \in 1..(k + 1) |-> <<OP_CONST, i - 1>>]
                  \o <<<<OP_CALL, 0>>>> \o [i \in 1..(k + 2) |-> <<OP_POP>>]
                  \o <<<<OP_RET>>>>),
     consts |-> [i \in 1..(k + 1) |-> IF i <= k THEN Num(10 + i) ELSE Num(1)]]

DrainModules ==
    {[fns |-> <<InnerFn, InnerFn>>, main |-> DrainMain(k)] : k \in 0..MaxBelow}

\* Modules that halt in the main chunk, and in a function called from a
\* function (two frames pending), with operands on the stack.
HaltFn == [code |-> Asm(<<<<OP_CONST, 0>>, <<OP_EXIT>>, <<OP_RET>>>>),
           consts |-> <<Num(96)>>]

HaltModules ==
    {[fns |-> <<>>,
      main |-> [code |-> Asm(<<<<OP_CONST, 0>>, <<OP_EXIT>>, <<OP_CONST, 0>>,
                               <<OP_RET>>>>),
                consts |-> <<Num(5)>>]]}
    \cup {[fns |-> <<[code |-> Asm(<<<<OP_CONST, 2>>, <<OP_CALL, 0>>, <<OP_RET>>>>),
                      consts |-> CalleeConsts], HaltFn>>,
           main |-> CallerMain(k, 0)] : k \in 0..MaxBelow}

EmptyModule == [fns |-> <<>>, main |-> [code |-> <<>>, consts |-> <<>>]]

\* Programs whose statement is a call expression, compiled together with
\* function definitions.  The definitions themselves are emitted by
\* emitFunctionDef, which fills the function table; the table is taken as
\* given here: three functions, so that every literal argument of CallArgs
\* is also the identifier of a function.
CallPrograms ==
    {<<ExprStmt(CallExpr(IdentExpr("f"), args))>> : args \in CallArgs}
    \cup {<<ExprStmt(BinaryExpr(Lit(1), "+", CallExpr(IdentExpr("f"), args)))>> :
            args \in CallArgs}
    \cup {<<LetStmt("x", CallExpr(IdentExpr("f"), <<Lit(2), Lit(0)>>))>>}

DefinedFn == [code |-> Asm(<<<<OP_CONST, 0>>, <<OP_RET>>>>), consts |-> CalleeConsts]

DefinedModule == [fns |-> <<DefinedFn, DefinedFn, DefinedFn>>,
                  main |-> [code |-> <<>>, consts |-> <<>>]]

(***************************************************************************)
(* KBC version 2 modules as bytes.                                         *)
(*                                                                         *)
(* In this part a constant's text is its bytes (a Go string is a byte      *)
(* sequence): KStr(<<97>>) is "a".  KNum is a float64 and KInt an int.     *)
(* KIntHigh(lo) is the int 2^31 + lo, which a 64-bit int holds and a       *)
(* 32-bit integer of the model cannot; KNumBits(b) is a float64 that is    *)
(* not one of the integers the model writes, kept as its eight bytes.      *)
(***************************************************************************)
KStr(bytes) == [k |-> "str", n |-> 0, s |-> bytes]
KNum(n) == [k |-> "num", n |-> n, s |-> <<>>]
KInt(n) == [k |-> "int", n |-> n, s |-> <<>>]
KIntHigh(lo) == [k |-> "int", n |-> lo, s |-> <<1>>]
KNumBits(b) == [k |-> "num", n |-> 0, s |-> b]

RECURSIVE Concat(_)
Concat(seqs) == IF seqs = <<>> THEN <<>> ELSE Head(seqs) \o Concat(Tail(seqs))

RECURSIVE Log2(_)
Log2(n) == IF n < 2 THEN 0 ELSE 1 + Log2(n \div 2)

\* The top FracBits bits of a float64's 52-bit fraction are the ones an
\* integer below 2^(FracBits+1) uses; the rest of the fraction is zero.
FracBits == 20
ExpBias == 1023

\* The eight little-endian bytes of a float64 with sign bit, biased exponent e
\* and fraction f * 2^32.
Float64Bytes(sign, e, f) ==
    <<0, 0, 0, 0, f % 256, (f \div 256) % 256,
      (e % 16) * 16 + f \div 65536, sign * 128 + e \div 16>>

\* math.Float64bits of the integer n, as PutUint64 lays it out.
Float64bits(n) ==
    IF n = 0 THEN <<0, 0, 0, 0, 0, 0, 0, 0>>
    ELSE Float64Bytes(IF n < 0 THEN 1 ELSE 0, ExpBias + Log2(Abs(n)),
                      (Abs(n) - 2 ^ Log2(Abs(n))) * 2 ^ (FracBits - Log2(Abs(n))))

Float64Of(b, sign, e, f) ==
    IF b = <<0, 0, 0, 0, 0, 0, 0, 0>> THEN KNum(0)
    ELSE IF /\ SubSeq(b, 1, 4) = <<0, 0, 0, 0>>
            /\ e >= 0 /\ e <= FracBits
            /\ f % (2 ^ (FracBits - e)) = 0
         THEN KNum((1 - 2 * sign) * (2 ^ e + f \div (2 ^ (FracBits - e))))
         ELSE KNumBits(b)

\* math.Float64frombits(binary.LittleEndian.Uint64(b)) for eight bytes b.
Float64frombits(b) ==
    Float64Of(b, b[8] \div 128, (b[8] % 128) * 16 + b[7] \div 16 - ExpBias,
              (b[7] % 16) * 65536 + b[6] * 256 + b[5])

\* int(binary.LittleEndian.Uint32(b)) for four bytes b: a value with the top
\* bit set stays positive in a 64-bit int and wraps in a 32-bit one.
Low31(b) == b[1] + 256 * b[2] + 65536 * b[3] + 16777216 * (b[4] % 128)

IntOfUint32(b, bits) ==
    IF b[4] < 128 THEN KInt(Low31(b))
    ELSE IF bits = 64 THEN KIntHigh(Low31(b))
    ELSE KInt(Low31(b) - MaxInt31 - 1)

(***************************************************************************)
(* The encoder, encodeModuleWithFunctions, is called by Emit but is not    *)
(* part of the sources; it is written here from the layout of the format   *)
(* description: magic "KBC", version 2, fn_count, then per chunk           *)
(* const_count, the constants (kind byte and payload), code_len, code.     *)
(***************************************************************************)
Magic == <<75, 66, 67>>
Version == 2

encodeConst(v) ==
    CASE v.k = "str" -> <<1>> \o PutUint32(Len(v.s)) \o v.s
      [] v.k = "num" -> <<2>> \o Float64bits(v.n)
      [] v.k = "int" -> <<3>> \o PutUint32(v.n)

encodeConsts(cs) == Concat([i \in 1..Len(cs) |-> encodeConst(cs[i])])

encodeChunk(ch) ==
    PutUint32(Len(ch.consts)) \o encodeConsts(ch.consts)
        \o PutUint32(Len(ch.code)) \o ch.code

encodeFns(fns) == Concat([i \in 1..Len(fns) |-> encodeChunk(fns[i])])

encodeModuleWithFunctions(mod) ==
    Magic \o <<Version>> \o PutUint32(Len(mod.fns)) \o encodeFns(mod.fns)
        \o encodeChunk(mod.main)

(***************************************************************************)
(* loadModule.  c is the slice it is given ([bytes, cap]); d is its        *)
(* progress: offset off, the value v of the length field read last, the    *)
(* VM fields constants and code, and the panic err that ended it ("" while *)
(* it runs).  fields counts the function-table and main-chunk fields read  *)
(* so far and beyond tells whether a slice expression reached past len     *)
(* (Go bounds a slice expression by cap, an index by len).                 *)
(***************************************************************************)
LoadStart ==
    [off |-> 0, v |-> 0, err |-> "", constants |-> <<>>, code |-> <<>>,
     fields |-> 0, beyond |-> FALSE]

loadPanic(d, msg) == [d EXCEPT !.err = msg]

ByteAt(c, i) == IF i < Len(c.bytes) THEN c.bytes[i + 1] ELSE 0

\* code[a : a+l]
Slice(c, a, l) == [i \in 1..l |-> ByteAt(c, a + i - 1)]

\* offset += l, an int that the model caps at MaxInt31
advance(d, l) ==
    [d EXCEPT !.off = IF l > MaxInt31 - d.off THEN MaxInt31 ELSE d.off + l]

\* binary.LittleEndian.UintN(code[offset:]) for a field of w bytes; the
\* caller takes the value and adds w to offset.
fieldErr(c, off, w) ==
    IF off > Len(c.bytes) THEN "slice bounds out of range"
    ELSE IF Len(c.bytes) - off < w THEN "index out of range"
    ELSE ""

\* l := int(binary.LittleEndian.Uint32(code[offset:])); offset += 4
readUint32(c, d) ==
    IF d.err # "" THEN d
    ELSE IF fieldErr(c, d.off, 4) # "" THEN loadPanic(d, fieldErr(c, d.off, 4))
    ELSE [d EXCEPT !.v = Uint32(c.bytes, d.off), !.off = d.off + 4,
                   !.fields = @ + 1]

\* offset += l, after a length field l
skipRegion(d) == IF d.err # "" THEN d ELSE advance(d, d.v)

skipKind(c, d, kind) ==
    CASE kind = 1 -> skipRegion(readUint32(c, d))
      [] kind = 2 -> advance(d, 8)
      [] kind = 3 -> advance(d, 4)
      [] OTHER -> loadPanic(d, "Unknown constant type in function chunk")

\* kind := code[offset]; offset++; switch kind
skipConstant(c, d) ==
    IF d.off >= Len(c.bytes) THEN loadPanic(d, "index out of range")
    ELSE skipKind(c, [d EXCEPT !.off = @ + 1, !.fields = @ + 1],
                  c.bytes[d.off + 1])

RECURSIVE skipConstants(_, _, _)
skipConstants(c, d, n) ==
    IF d.err # "" \/ n = 0 THEN d
    ELSE skipConstants(c, skipConstant(c, d), n - 1)

skipPool(c, d) == IF d.err # "" THEN d ELSE skipConstants(c, d, d.v)

\* One function chunk: constants, then code, both skipped.
skipFunction(c, d) == skipRegion(readUint32(c, skipPool(c, readUint32(c, d))))

RECURSIVE skipFunctions(_, _, _)
skipFunctions(c, d, n) ==
    IF d.err # "" \/ n = 0 THEN d
    ELSE skipFunctions(c, skipFunction(c, d), n - 1)

skipTable(c, d) == IF d.err # "" THEN d ELSE skipFunctions(c, d, d.v)

\* vm.constants[i] = v
setConstant(d, v) == [d EXCEPT !.constants = Append(@, v)]

\* str := string(code[offset:offset+l]); offset += l
readString(c, d) ==
    IF d.err # "" THEN d
    ELSE IF d.v > c.cap - d.off THEN loadPanic(d, "slice bounds out of range")
    ELSE [setConstant(d, KStr(Slice(c, d.off, d.v)))
            EXCEPT !.off = d.off + d.v,
                   !.beyond = @ \/ d.off + d.v > Len(c.bytes)]

\* bits := binary.LittleEndian.Uint64(code[offset:]); offset += 8
readFloat(c, d) ==
    IF fieldErr(c, d.off, 8) # "" THEN loadPanic(d, fieldErr(c, d.off, 8))
    ELSE [setConstant(d, Float64frombits(Slice(c, d.off, 8)))
            EXCEPT !.off = d.off + 8]

\* v := int(binary.LittleEndian.Uint32(code[offset:])); offset += 4
readInt32(c, d) ==
    IF fieldErr(c, d.off, 4) # "" THEN loadPanic(d, fieldErr(c, d.off, 4))
    ELSE [setConstant(d, IntOfUint32(Slice(c, d.off, 4), intBits))
            EXCEPT !.off = d.off + 4]

readKind(c, d, kind) ==
    CASE kind = 1 -> readString(c, readUint32(c, d))
      [] kind = 2 -> readFloat(c, d)
      [] kind = 3 -> readInt32(c, d)
      [] OTHER -> loadPanic(d, "Unknown constant type in main chunk")

readConstant(c, d) ==
    IF d.off >= Len(c.bytes) THEN loadPanic(d, "index out of range")
    ELSE readKind(c, [d EXCEPT !.off = @ + 1, !.fields = @ + 1],
                  c.bytes[d.off + 1])

RECURSIVE readConstants(_, _, _)
readConstants(c, d, n) ==
    IF d.err # "" \/ n = 0 THEN d
    ELSE readConstants(c, readConstant(c, d), n - 1)

readPool(c, d) == IF d.err # "" THEN d ELSE readConstants(c, d, d.v)

\* vm.code = code[offset : offset+codeLen]
readCode(c, d) ==
    IF d.err # "" THEN d
    ELSE IF d.v > c.cap - d.off THEN loadPanic(d, "slice bounds out of range")
    ELSE [d EXCEPT !.code = Slice(c, d.off, d.v),
                   !.beyond = @ \/ d.off + d.v > Len(c.bytes)]

\* A loader that checks the magic bytes and takes any version.
readHeaderAnyVersion(c, d) ==
    IF 3 > c.cap THEN loadPanic(d, "slice bounds out of range")
    ELSE IF Slice(c, 0, 3) # Magic THEN loadPanic(d, "Invalid bytecode header")
    ELSE IF 3 >= Len(c.bytes) THEN loadPanic(d, "index out of range")
    ELSE [d EXCEPT !.off = 4]

\* if string(code[:3]) != "KBC" ...; version := code[3]; offset := 4
readHeader(c, d) ==
    IF 3 > c.cap THEN loadPanic(d, "slice bounds out of range")
    ELSE IF Slice(c, 0, 3) # Magic
         THEN loadPanic([d EXCEPT !.beyond = 3 > Len(c.bytes)],
                        "Invalid bytecode header")
    ELSE IF 3 >= Len(c.bytes) THEN loadPanic(d, "index out of range")
    ELSE IF c.bytes[4] # Version THEN loadPanic(d, "Unsupported KBC version")
    ELSE [d EXCEPT !.off = 4]

loadModule(c) ==
    readCode(c,
      readUint32(c,
        readPool(c,
          readUint32(c,
            skipTable(c,
              readUint32(c,
                readHeader(c, LoadStart)))))))

NotLoaded == [LoadStart EXCEPT !.err = "not loaded"]

(***************************************************************************)
(* The buffers loadModule is run on: the encodings of small modules, the   *)
(* same with one length-prefixed region shortened (the declared length     *)
(* kept), and the same with a damaged or cut-off header.                   *)
(***************************************************************************)
LoadValues == {KStr(<<97, 98>>), KStr(<<>>), KNum(1), KNum(-3), KNum(0),
               KInt(7), KInt(-1)}

LoadPools ==
    {<<>>} \cup {<<v>> : v \in LoadValues}
           \cup {<<KStr(<<120>>), v>> : v \in LoadValues}
           \cup {<<KInt(-2), KNum(6), KStr(<<121, 122>>)>>}

LoadCodes == {<<>>, <<OP_CONST, 0, 0, 0, 0, OP_RET>>}

LoadFn1 == [consts |-> <<KStr(<<102>>), KNum(2)>>,
            code |-> <<OP_LOAD, 0, 0, 0, 0, OP_RET>>]
LoadFn2 == [consts |-> <<KInt(3)>>, code |-> <<OP_EXIT>>]

LoadTables == {<<>>, <<LoadFn1>>, <<LoadFn1, LoadFn2>>}

LoadModules ==
    {[fns |-> f, main |-> [consts |-> p, code |-> co]] :
        f \in LoadTables, p \in LoadPools, co \in LoadCodes}

\* Where chunk ci of mod starts in its encoding (0-based offset); chunk 0 is
\* the main chunk and chunk i the i-th function.
ChunkOf(mod, ci) == IF ci = 0 THEN mod.main ELSE mod.fns[ci]

ChunkStart(mod, ci) ==
    8 + Len(encodeFns(SubSeq(mod.fns, 1, IF ci = 0 THEN Len(mod.fns) ELSE ci - 1)))

\* The length-prefixed regions of mod's encoding: the code of each chunk and
\* the bytes of each string constant, as [start, len].
CodeRegion(mod, ci) ==
    [start |-> ChunkStart(mod, ci) + 4 + Len(encodeConsts(ChunkOf(mod, ci).consts)) + 4,
     len |-> Len(ChunkOf(mod, ci).code)]

StrRegion(mod, ci, i) ==
    [start |-> ChunkStart(mod, ci) + 4
                 + Len(encodeConsts(SubSeq(ChunkOf(mod, ci).consts, 1, i - 1))) + 5,
     len |-> Len(ChunkOf(mod, ci).consts[i].s)]

Regions(mod) ==
    {r \in {CodeRegion(mod, ci) : ci \in 0..Len(mod.fns)}
             \cup UNION {{StrRegion(mod, ci, i) :
                            i \in {j \in 1..Len(ChunkOf(mod, ci).consts) :
                                     ChunkOf(mod, ci).consts[j].k = "str"}} :
                         ci \in 0..Len(mod.fns)} :
        r.len > 0}

\* bytes with the last k bytes of region r removed
Shorten(bytes, r, k) ==
    SubSeq(bytes, 1, r.start + r.len - k)
        \o SubSeq(bytes, r.start + r.len + 1, Len(bytes))

\* bytes with byte i (1-based) replaced by b
Damage(bytes, i, b) == [bytes EXCEPT ![i] = b]

HeaderBytes == {0, 1, 2, 3, 66, 75}

MaxSlack == 2

\* Emit of the bootstrap phase: return []byte{0x4B, 0x42, 0x43, 0x01}
EmitBootstrap == <<75, 66, 67, 1>>

\* compileModule: bc := bytecode.Emit(ast); os.WriteFile(out, bc, 0644).
\* Parse of the bootstrap phase returns nil whatever the tokens are, and
\* Emit does not look at its argument: the file holds Emit's bytes.
compileModule == EmitBootstrap

Inputs ==
    {[what |-> "module", mod |-> mod, bytes |-> encodeModuleWithFunctions(mod)] :
        mod \in LoadModules}
    \cup UNION {{[what |-> "shortened", mod |-> mod,
                  bytes |-> Shorten(encodeModuleWithFunctions(mod), rk[1], rk[2])] :
                    rk \in {x \in Regions(mod) \X (1..3) : x[2] <= x[1].len}} :
                mod \in LoadModules}
    \cup UNION {{[what |-> "header", mod |-> mod,
                  bytes |-> Damage(encodeModuleWithFunctions(mod), ib[1], ib[2])] :
                    ib \in {x \in (1..4) \X HeaderBytes :
                              encodeModuleWithFunctions(mod)[x[1]] # x[2]}} :
                mod \in {m \in LoadModules : m.main.consts = <<>>}}
    \cup {[what |-> "header", mod |-> EmptyModule,
           bytes |-> SubSeq(encodeModuleWithFunctions(EmptyModule), 1, n)] :
            n \in 0..3}
    \cup {[what |-> "compiled", mod |-> EmptyModule, bytes |-> compileModule]}

(***************************************************************************)
(* The lexer (internal/lexer).  Source text is a sequence of runes, each   *)
(* rune a one-character string; NUL is the rune 0 that peek and advance    *)
(* return at the end of the text.  Lexemes are sequences of runes.         *)
(***************************************************************************)
NUL == ""

Letters ==
    {"a", "b", "c", "d", "e", "f", "g", "h", "i", "j", "k", "l", "m", "n", "o",
     "p", "q", "r", "s", "t", "u", "v", "w", "x", "y", "z", "_"}
Digits == {"0", "1", "2", "3", "4", "5", "6", "7", "8", "9"}

\* unicode.IsLetter(ch) || ch == '_'
isLetter(ch) == ch \in Letters

\* unicode.IsDigit(ch)
isDigit(ch) == ch \in Digits

Token(type, lexeme, line, column) ==
    [Type |-> type, Lexeme |-> lexeme, Line |-> line, Column |-> column]

\* New(src): &Lexer{src, line: 1, col: 0, indentStack: []int{0}, startOfLine: true}
NewLexer(text) ==
    [src |-> text, pos |-> 0, line |-> 1, col |-> 0,
     indentStack |-> <<0>>, startOfLine |-> TRUE]

isAtEnd(l) == l.pos >= Len(l.src)

\* advance: the rune at pos is consumed (nothing happens at the end).
lexAdvance(l) ==
    IF isAtEnd(l) THEN l ELSE [l EXCEPT !.pos = @ + 1, !.col = @ + 1]

lexPeek(l) == IF isAtEnd(l) THEN NUL ELSE l.src[l.pos + 1]

peekNext(l) == IF l.pos + 1 >= Len(l.src) THEN NUL ELSE l.src[l.pos + 2]

peekThird(l) == IF l.pos + 2 >= Len(l.src) THEN NUL ELSE l.src[l.pos + 3]

\* advance; if ch == '\n' { l.line++; l.col = 0 }   (inside strings and comments)
advanceCountingLines(l) ==
    IF lexPeek(l) = "\n"
    THEN [lexAdvance(l) EXCEPT !.line = @ + 1, !.col = 0]
    ELSE lexAdvance(l)

RECURSIVE skipWhitespaceExceptNewline(_)
skipWhitespaceExceptNewline(l) ==
    IF ~isAtEnd(l) /\ lexPeek(l) \in {" ", "\t", "\r"}
    THEN skipWhitespaceExceptNewline(lexAdvance(l))
    ELSE l

RECURSIVE skipLineComment(_)
skipLineComment(l) ==
    IF ~isAtEnd(l) /\ lexPeek(l) # "\n" THEN skipLineComment(lexAdvance(l)) ELSE l

RECURSIVE skipBlockCommentBody(_)
skipBlockCommentBody(l) ==
    IF isAtEnd(l) THEN l
    ELSE IF lexPeek(l) = "*" /\ peekNext(l) = "/" THEN lexAdvance(lexAdvance(l))
    ELSE skipBlockCommentBody(advanceCountingLines(l))

skipBlockComment(l) == skipBlockCommentBody(lexAdvance(lexAdvance(l)))

\* The keywords of lexIdentifierOrKeyword's switch.
KeywordType(lex) ==
    CASE lex = <<"d", "e", "f">> -> "DEF"
      [] lex = <<"f", "u", "n", "c">> -> "FUNC"
      [] lex = <<"u", "s", "e">> -> "USE"
      [] lex = <<"l", "e", "t">> -> "LET"
      [] lex = <<"i", "f">> -> "IF"
      [] lex = <<"e", "l", "s", "e">> -> "ELSE"
      [] lex = <<"w", "h", "i", "l", "e">> -> "WHILE"
      [] lex = <<"f", "o", "r">> -> "FOR"
      [] lex = <<"r", "e", "t", "u", "r", "n">> -> "RETURN"
      [] lex = <<"e", "x", "i", "t">> -> "EXIT"
      [] lex = <<"p", "a", "s", "s">> -> "PASS"
      [] lex = <<"t", "r", "u", "e">> -> "TRUE"
      [] lex = <<"f", "a", "l", "s", "e">> -> "FALSE"
      [] OTHER -> "IDENT"

RECURSIVE identEnd(_)
identEnd(l) ==
    IF ~isAtEnd(l) /\ (isLetter(lexPeek(l)) \/ isDigit(lexPeek(l)) \/ lexPeek(l) = "_")
    THEN identEnd(lexAdvance(l))
    ELSE l

lexemeTo(l, e) == SubSeq(l.src, l.pos + 1, e.pos)

tokenTo(l, e, type) == [l |-> e, tok |-> Token(type, lexemeTo(l, e), e.line, l.col)]

lexIdentifierOrKeyword(l) ==
    [l |-> identEnd(l),
     tok |-> Token(KeywordType(lexemeTo(l, identEnd(l))), lexemeTo(l, identEnd(l)),
                   l.line, l.col)]

RECURSIVE numberEnd(_, _)
numberEnd(l, hasDot) ==
    IF isAtEnd(l) THEN l
    ELSE IF isDigit(lexPeek(l)) THEN numberEnd(lexAdvance(l), hasDot)
    ELSE IF lexPeek(l) = "." /\ ~hasDot THEN numberEnd(lexAdvance(l), TRUE)
    ELSE l

lexNumber(l) == tokenTo(l, numberEnd(l, FALSE), "NUMBER")

RECURSIVE stringEnd(_, _)
stringEnd(l, quote) ==
    IF ~isAtEnd(l) /\ lexPeek(l) # quote
    THEN stringEnd(advanceCountingLines(l), quote)
    ELSE l

\* The token of a string whose body starts at s and stops at e; the closing
\* quote (n runes) is consumed when the text has not ended.
stringToken(l, s, e, n) ==
    [l |-> IF isAtEnd(e) THEN e
           ELSE IF n = 1 THEN lexAdvance(e)
           ELSE lexAdvance(lexAdvance(lexAdvance(e))),
     tok |-> Token("STRING", lexemeTo(s, e), e.line, l.col)]

lexString(l, quote) ==
    stringToken(l, lexAdvance(l), stringEnd(lexAdvance(l), quote), 1)

RECURSIVE tripleEnd(_)
tripleEnd(l) ==
    IF isAtEnd(l) THEN l
    ELSE IF lexPeek(l) = "\"" /\ peekNext(l) = "\"" /\ peekThird(l) = "\"" THEN l
    ELSE tripleEnd(advanceCountingLines(l))

lexTripleString(l) ==
    stringToken(l, lexAdvance(lexAdvance(lexAdvance(l))),
                tripleEnd(lexAdvance(lexAdvance(lexAdvance(l)))), 3)

\* The single-rune tokens of lexSymbol.
SingleSymbols == {",", ":", ".", "(", ")", "{", "}", "[", "]", "%"}

\* second rune -> the two-rune token that ch may begin
TwoRune(ch) ==
    CASE ch = "+" -> {"="}
      [] ch = "-" -> {">", "="}
      [] ch = "*" -> {"="}
      [] ch = "/" -> {"="}
      [] ch = "=" -> {"="}
      [] ch = "!" -> {"="}
      [] ch = "<" -> {"="}
      [] ch = ">" -> {"="}
      [] ch = "&" -> {"&"}
      [] ch = "|" -> {"|"}
      [] OTHER -> {}

TwoRuneType(ch, nx) ==
    CASE ch = "+" -> "+=" [] ch = "-" /\ nx = ">" -> "->" [] ch = "-" -> "-="
      [] ch = "*" -> "*=" [] ch = "/" -> "/=" [] ch = "=" -> "=="
      [] ch = "!" -> "!=" [] ch = "<" -> "<=" [] ch = ">" -> ">="
      [] ch = "&" -> "&&" [] OTHER -> "||"

\* The token type is the operator's own text.
lexSymbol(l) ==
    LET ch == lexPeek(l)
        a == lexAdvance(l)
    IN  IF lexPeek(a) \in TwoRune(ch)
        THEN [l |-> lexAdvance(a),
              tok |-> Token(TwoRuneType(ch, lexPeek(a)), <<ch, lexPeek(a)>>, l.line, l.col)]
        ELSE IF ch \in SingleSymbols \cup {"+", "-", "*", "/", "=", "!", "<", ">"}
        THEN [l |-> a, tok |-> Token(ch, <<ch>>, l.line, l.col)]
        ELSE [l |-> a, tok |-> Token("ILLEGAL", <<ch>>, l.line, l.col)]

\* The spaces and tabs at the start of a line: count, a tab counting as 4.
RECURSIVE indentEnd(_, _)
indentEnd(l, count) ==
    IF isAtEnd(l) THEN [l |-> l, count |-> count]
    ELSE IF lexPeek(l) = " " THEN indentEnd(lexAdvance(l), count + 1)
    ELSE IF lexPeek(l) = "\t" THEN indentEnd(lexAdvance(l), count + 4)
    ELSE [l |-> l, count |-> count]

\* Blank line or comment line
blankOrComment(l) ==
    \/ isAtEnd(l) \/ lexPeek(l) = "\n" \/ lexPeek(l) = "#"
    \/ (lexPeek(l) = "/" /\ peekNext(l) = "*")

currentIndent(l) == l.indentStack[Len(l.indentStack)]

popIndent(l) == [l EXCEPT !.indentStack = SubSeq(@, 1, Len(@) - 1)]

RECURSIVE nextToken(_)

\* if count < currentIndent: one level is popped and one DEDENT returned
dedent(l, count) == [l |-> popIndent(l), tok |-> Token("DEDENT", <<>>, l.line, 0)]

\* An indentation step that opens a level for a line no deeper than the top.
indentationPushSame(l, count) ==
    IF blankOrComment(l) THEN nextToken([l EXCEPT !.startOfLine = FALSE])
    ELSE IF count >= currentIndent(l)
    THEN [l |-> [l EXCEPT !.indentStack = Append(@, count)],
          tok |-> Token("INDENT", <<>>, l.line, 0)]
    ELSE dedent(l, count)

\* lexIndentation after the leading spaces and tabs have been counted
indentation(l, count) ==
    IF blankOrComment(l) THEN nextToken([l EXCEPT !.startOfLine = FALSE])
    ELSE IF count > currentIndent(l)
    THEN [l |-> [l EXCEPT !.indentStack = Append(@, count)],
          tok |-> Token("INDENT", <<>>, l.line, 0)]
    ELSE IF count < currentIndent(l) THEN dedent(l, count)
    ELSE nextToken(l)

lexIndentation(l) == indentation(indentEnd(l, 0).l, indentEnd(l, 0).count)

\* An end of text that answers EOF with indentation levels still open.
endOfTextEarly(l) == [l |-> l, tok |-> Token("EOF", <<>>, l.line, l.col)]

\* if l.isAtEnd(): DEDENT for a remaining level, else EOF
endOfText(l) ==
    IF Len(l.indentStack) > 1
    THEN [l |-> popIndent(l), tok |-> Token("DEDENT", <<>>, l.line, l.col)]
    ELSE [l |-> l, tok |-> Token("EOF", <<>>, l.line, l.col)]

\* nextToken after skipWhitespaceExceptNewline
tokenAt(l) ==
    IF isAtEnd(l) THEN endOfText(l)
    ELSE IF lexPeek(l) = "\n"
    THEN [l |-> [lexAdvance(l) EXCEPT !.line = @ + 1, !.col = 0, !.startOfLine = TRUE],
          tok |-> Token("NEWLINE", <<"\n">>, l.line, 0)]
    ELSE IF lexPeek(l) = "#" THEN nextToken(skipLineComment(l))
    ELSE IF lexPeek(l) = "/" /\ peekNext(l) = "*" THEN nextToken(skipBlockComment(l))
    ELSE IF isLetter(lexPeek(l)) \/ lexPeek(l) = "_" THEN lexIdentifierOrKeyword(l)
    ELSE IF isDigit(lexPeek(l)) THEN lexNumber(l)
    ELSE IF lexPeek(l) = "\""
    THEN (IF peekNext(l) = "\"" /\ peekThird(l) = "\"" THEN lexTripleString(l)
          ELSE lexString(l, "\""))
    ELSE IF lexPeek(l) = "'" THEN lexString(l, "'")
    ELSE lexSymbol(l)

nextToken(l) ==
    IF l.startOfLine THEN lexIndentation([l EXCEPT !.startOfLine = FALSE])
    ELSE tokenAt(skipWhitespaceExceptNewline(l))

(***************************************************************************)
(* The expression parser (internal/parser, Pratt parser).  A parser is the *)
(* token slice, the position in it and the panic that stopped it, if any;  *)
(* a parse function answers the parser it leaves and the node it built.    *)
(* peek, next, expect, match and parseExpression are the Parser methods    *)
(* the expression functions call.                                          *)
(***************************************************************************)
NoExpr == [Kind |-> "none"]

MemberExpr(object, name) == [Kind |-> "MemberExpr", Object |-> object, Name |-> name]

NewParser(toks) == [tokens |-> toks, pos |-> 0, panic |-> ""]

parserPanic(p, msg) == [p |-> [p EXCEPT !.panic = msg], e |-> NoExpr]

parserPeek(p) ==
    IF p.pos < Len(p.tokens) THEN p.tokens[p.pos + 1] ELSE Token("EOF", <<>>, 0, 0)

parserNext(p) == IF p.pos < Len(p.tokens) THEN [p EXCEPT !.pos = @ + 1] ELSE p

\* expect: the token is consumed when it has the type, else the parser panics
expect(p, type, msg) ==
    IF p.panic # "" THEN p
    ELSE IF parserPeek(p).Type = type THEN parserNext(p)
    ELSE [p EXCEPT !.panic = msg]

\* match: the token is consumed when it has the type
match(p, type) == IF parserPeek(p).Type = type THEN parserNext(p) ELSE p

AssignOps == {"=", "+=", "-=", "*=", "/="}

\* precedences[tok.Type], or -1
getPrecedence(tok) ==
    CASE tok.Type = "||" -> 1
      [] tok.Type = "&&" -> 2
      [] tok.Type \in {"==", "!="} -> 3
      [] tok.Type \in {"<", ">", "<=", ">="} -> 4
      [] tok.Type \in {"+", "-"} -> 5
      [] tok.Type \in {"*", "/", "%"} -> 6
      [] tok.Type \in AssignOps -> 0
      [] OTHER -> -1

RECURSIVE parseExpr(_, _)
RECURSIVE parsePrefix(_)
RECURSIVE parseCall(_, _)

parseExpression(p) == parseExpr(p, 0)

\* A node built around the node r answers, unless the parser has panicked.
unaryOf(op, r) ==
    IF r.p.panic # "" THEN r ELSE [p |-> r.p, e |-> UnaryExpr(op, r.e)]

parenOf(r) ==
    IF r.p.panic # "" THEN r
    ELSE IF expect(r.p, ")", "expected ')'").panic # ""
    THEN parserPanic(r.p, "expected ')'")
    ELSE [p |-> expect(r.p, ")", "expected ')'"), e |-> ParenExpr(r.e)]

binaryOf(left, op, r) ==
    IF r.p.panic # "" THEN r ELSE [p |-> r.p, e |-> BinaryExpr(left, op, r.e)]

assignOf(name, r) ==
    IF r.p.panic # "" THEN r ELSE [p |-> r.p, e |-> AssignExpr(name, r.e)]

\* An assignment that takes any node as its target.
parseAssignmentAnyTarget(p, left) ==
    assignOf(IF left.Kind = "IdentExpr" THEN left.Name ELSE <<>>,
             parseExpression(parserNext(p)))

\* tok := p.next(); ident, ok := left.(*IdentExpr); if !ok { panic }; value := ...
parseAssignment(p, left) ==
    IF left.Kind # "IdentExpr"
    THEN parserPanic(parserNext(p), "Left side of assignment must be an identifier")
    ELSE assignOf(left.Name, parseExpression(parserNext(p)))

\* The argument loop of parseCall: r is the argument just parsed.
RECURSIVE callArgs(_, _, _)
callArgs(callee, args, r) ==
    IF r.p.panic # "" THEN r
    ELSE IF parserPeek(r.p).Type = ","
    THEN callArgs(callee, Append(args, r.e), parseExpression(parserNext(r.p)))
    ELSE IF parserPeek(r.p).Type # ")"
    THEN parserPanic(r.p, "expected ')' after call arguments")
    ELSE [p |-> parserNext(r.p), e |-> CallExpr(callee, Append(args, r.e))]

\* parseCall after p.expect(LPAREN): p stands behind the parenthesis.
callAfterParen(p, callee) ==
    IF parserPeek(p).Type = ")" THEN [p |-> parserNext(p), e |-> CallExpr(callee, <<>>)]
    ELSE callArgs(callee, <<>>, parseExpression(p))

parseCall(p, callee) ==
    IF parserPeek(p).Type # "(" THEN parserPanic(p, "call")
    ELSE callAfterParen(parserNext(p), callee)

\* The loop of parseIdentifierOrCallOrMember: r holds the node so far.
RECURSIVE postfix(_)
postfix(r) ==
    IF r.p.panic # "" THEN r
    ELSE IF parserPeek(r.p).Type = "(" THEN postfix(parseCall(r.p, r.e))
    ELSE IF parserPeek(r.p).Type = "."
    THEN (IF parserPeek(parserNext(r.p)).Type # "IDENT"
          THEN parserPanic(parserNext(r.p), "member name")
          ELSE postfix([p |-> parserNext(parserNext(r.p)),
                        e |-> MemberExpr(r.e, parserPeek(parserNext(r.p)).Lexeme)]))
    ELSE r

parseIdentifierOrCallOrMember(p) ==
    IF parserPeek(p).Type # "IDENT" THEN parserPanic(p, "identifier")
    ELSE postfix([p |-> parserNext(p), e |-> IdentExpr(parserPeek(p).Lexeme)])

parsePrefix(p) ==
    CASE parserPeek(p).Type = "IDENT" -> parseIdentifierOrCallOrMember(p)
      [] parserPeek(p).Type = "NUMBER" ->
            [p |-> parserNext(p), e |-> NumberExpr(parserPeek(p).Lexeme)]
      [] parserPeek(p).Type = "STRING" ->
            [p |-> parserNext(p), e |-> StringExpr(parserPeek(p).Lexeme)]
      [] parserPeek(p).Type = "TRUE" -> [p |-> parserNext(p), e |-> BoolExpr(TRUE)]
      [] parserPeek(p).Type = "FALSE" -> [p |-> parserNext(p), e |-> BoolExpr(FALSE)]
      [] parserPeek(p).Type \in {"-", "!"} ->
            unaryOf(parserPeek(p).Lexeme, parsePrefix(parserNext(p)))
      [] parserPeek(p).Type = "(" -> parenOf(parseExpression(parserNext(p)))
      [] OTHER -> parserPanic(p, "Unexpected token in expression")

\* The loop of parseExpr: r holds left.
RECURSIVE exprLoop(_, _)
exprLoop(r, minPrec) ==
    IF r.p.panic # "" THEN r
    ELSE IF getPrecedence(parserPeek(r.p)) < minPrec THEN r
    ELSE IF parserPeek(r.p).Type \in AssignOps
    THEN exprLoop(parseAssignment(r.p, r.e), minPrec)
    ELSE exprLoop(binaryOf(r.e, parserPeek(r.p).Lexeme,
                           parseExpr(parserNext(r.p),
                                     getPrecedence(parserPeek(r.p)) + 1)),
                  minPrec)

parseExpr(p, minPrec) == exprLoop(parsePrefix(p), minPrec)

(***************************************************************************)
(* Init: the compiler is about to emit a program, or a VM is about to be   *)
(* created from a hand-assembled module.  The VM fields hold Go's zero     *)
(* values until New runs.                                                  *)
(***************************************************************************)
Init ==
    /\ \/ ast \in Programs /\ module = EmptyModule /\ pc = "emit"
       \/ ast \in CallPrograms /\ module = DefinedModule /\ pc = "emit"
       \/ ast = <<>> /\ module \in CallModules \cup OperandModules \cup DrainModules
                           \cup HaltModules
          /\ pc = "load"
    /\ pos = 1
    /\ mainChunk = NewChunk
    /\ code = MainRef /\ constants = MainRef
    /\ ip = 0 /\ sp = 0 /\ stack = <<>> /\ callStack = <<>>
    /\ pools = <<>>
    /\ status = "new" /\ err = "" /\ result = Nil
    /\ trace = <<>>
    /\ buf = <<>> /\ bufCap = 0 /\ intBits = 64 /\ loaded = NotLoaded
    /\ input = [what |-> "none", mod |-> EmptyModule]
    /\ heap = <<>> /\ inst = <<>>
    /\ FrontIdle

vmVars == <<code, constants, ip, sp, stack, callStack, pools, status, err,
            result, trace>>

(***************************************************************************)
(* Emit: for _, stmt := range ast.TopLevel { emitStmt(mainChunk, stmt) }   *)
(***************************************************************************)
EmitTopLevel ==
    /\ pc = "emit" /\ pos <= Len(ast)
    /\ mainChunk' = emitStmt(mainChunk, ast[pos])
    /\ pos' = pos + 1
    /\ pc' = IF mainChunk'.panic # "" THEN "done" ELSE "emit"
    /\ UNCHANGED <<ast, module>>
    /\ UNCHANGED vmVars
    /\ UNCHANGED loadVars
    /\ UNCHANGED frontVars
    /\ UNCHANGED twoVars

\* mainChunk.emit(OP_RET); return encodeModuleWithFunctions(mainChunk).
\* The function table is the one the program's definitions filled (empty
\* for a program without definitions).
EmitFinish ==
    /\ pc = "emit" /\ pos > Len(ast)
    /\ mainChunk' = emit(mainChunk, OP_RET)
    /\ module' = [fns |-> module.fns,
                  main |-> [code |-> mainChunk'.Code,
                            consts |-> mainChunk'.Constants]]
    /\ pc' = "load"
    /\ UNCHANGED <<ast, pos>>
    /\ UNCHANGED vmVars
    /\ UNCHANGED loadVars
    /\ UNCHANGED frontVars
    /\ UNCHANGED twoVars

(***************************************************************************)
(* New / loadModule: the main chunk becomes the active code and pool.      *)
(***************************************************************************)
New ==
    /\ pc = "load"
    /\ code' = MainRef /\ constants' = MainRef
    /\ pools' = <<module.main.consts>> \o [i \in 1..Len(module.fns) |-> module.fns[i].consts]
    /\ ip' = 0 /\ sp' = 0 /\ stack' = <<>> /\ callStack' = <<>>
    /\ status' = "running"
    /\ pc' = "run"
    /\ UNCHANGED <<ast, pos, mainChunk, module, err, result, trace>>
    /\ UNCHANGED loadVars
    /\ UNCHANGED frontVars
    /\ UNCHANGED twoVars

(***************************************************************************)
(* Step: one iteration of Run's loop.  trace is history: the instruction   *)
(* fetched, with the machine as it was when the instruction was fetched.   *)
(***************************************************************************)
Fetched ==
    IF ip < Len(CodeOf(code)) THEN CodeOf(code)[ip + 1] ELSE 0

TraceEntry ==
    [code |-> code, consts |-> constants, ip |-> ip, op |-> Fetched, sp |-> sp,
     stack |-> stack, depth |-> Len(callStack)]

Step ==
    /\ pc = "run" /\ status = "running" /\ Len(trace) < MaxSteps
    /\ LET r == RunIteration(Machine)
       IN  /\ code' = r.code /\ constants' = r.constants
           /\ ip' = r.ip /\ sp' = r.sp /\ stack' = r.stack
           /\ callStack' = r.callStack /\ pools' = r.pools
           /\ status' = r.status /\ err' = r.err /\ result' = r.result
           /\ pc' = IF r.status = "running" THEN "run" ELSE "done"
    /\ trace' = Append(trace, TraceEntry)
    /\ UNCHANGED <<ast, pos, mainChunk, module>>
    /\ UNCHANGED loadVars
    /\ UNCHANGED frontVars
    /\ UNCHANGED twoVars

Next == EmitTopLevel \/ EmitFinish \/ New \/ Step

Spec == Init /\ [][Next]_vars

(***************************************************************************)
(* The loader on its own: New(code) on a buffer, in either build.          *)
(***************************************************************************)
InitLoad ==
    /\ \E i \in Inputs :
          /\ input = [what |-> i.what, mod |-> i.mod]
          /\ buf = i.bytes
    /\ bufCap \in {Len(buf), Len(buf) + MaxSlack}
    /\ intBits \in {32, 64}
    /\ loaded = NotLoaded
    /\ heap = <<>> /\ inst = <<>>
    /\ FrontIdle
    /\ pc = "decode"
    /\ ast = <<>> /\ pos = 1 /\ mainChunk = NewChunk /\ module = EmptyModule
    /\ code = MainRef /\ constants = MainRef
    /\ ip = 0 /\ sp = 0 /\ stack = <<>> /\ callStack = <<>>
    /\ pools = <<>>
    /\ status = "new" /\ err = "" /\ result = Nil
    /\ trace = <<>>

LoadModule ==
    /\ pc = "decode"
    /\ loaded' = loadModule([bytes |-> buf, cap |-> bufCap])
    /\ pc' = "decoded"
    /\ UNCHANGED <<ast, pos, mainChunk, module, buf, bufCap, intBits, input>>
    /\ UNCHANGED vmVars
    /\ UNCHANGED twoVars
    /\ UNCHANGED frontVars

NextLoad == LoadModule

SpecLoad == InitLoad /\ [][NextLoad]_vars

Decoded == pc = "decoded"

(***************************************************************************)
(* Several VMs made from one module and stepped in any order.  What the    *)
(* VMs could share is explicit: the module (vm.code is a slice of the      *)
(* module's bytes) and the heap of constants slices; a VM reads and writes *)
(* vm.constants through the address it holds.  The modules here have an    *)
(* empty function table, so the active pool is always the main chunk's.    *)
(***************************************************************************)
MaxInstances == 2

ShareConsts == <<Num(1), Num(2), Str("a")>>

ShareModules ==
    {[fns |-> <<>>,
      main |-> [code |-> Asm(<<<<OP_CONST, i>>, <<OP_STORE, j>>, <<OP_LOAD, j>>,
                               <<OP_CONST, j>>, <<OP_EQ>>, <<OP_LOAD, 0>>,
                               <<OP_RET>>>>),
                consts |-> ShareConsts]] : i \in 0..2, j \in 0..2}

\* One slice for all the VMs of a module.
allocShared(h, consts) ==
    IF h = <<>> THEN [heap |-> <<consts>>, addr |-> 1]
    ELSE [heap |-> h, addr |-> 1]

\* vm.constants = make([]interface{}, cCount), then filled from the bytes:
\* a new slice on the heap h, holding consts.
allocConstants(h, consts) == [heap |-> Append(h, consts), addr |-> Len(h) + 1]

\* New: vm := &VM{}; vm.loadModule(code)
NewVM(addr) ==
    [vm |-> [code |-> MainRef, constants |-> MainRef, ip |-> 0, sp |-> 0,
             stack |-> <<>>, callStack |-> <<>>, pools |-> <<>>,
             status |-> "running", err |-> "", result |-> Nil],
     addr |-> addr, steps |-> 0]

\* VM i as Run sees it: its fields, and the slice its constants point to.
ViewOf(i) == [inst[i].vm EXCEPT !.pools = <<heap[inst[i].addr]>>]

InitTwo ==
    /\ module \in ShareModules
    /\ heap = <<>> /\ inst = <<>>
    /\ FrontIdle
    /\ pc = "two"
    /\ ast = <<>> /\ pos = 1 /\ mainChunk = NewChunk
    /\ code = MainRef /\ constants = MainRef
    /\ ip = 0 /\ sp = 0 /\ stack = <<>> /\ callStack = <<>>
    /\ pools = <<>>
    /\ status = "new" /\ err = "" /\ result = Nil
    /\ trace = <<>>
    /\ buf = <<>> /\ bufCap = 0 /\ intBits = 64 /\ loaded = NotLoaded
    /\ input = [what |-> "none", mod |-> EmptyModule]

NewInstance ==
    /\ pc = "two" /\ Len(inst) < MaxInstances
    /\ heap' = allocConstants(heap, module.main.consts).heap
    /\ inst' = Append(inst, NewVM(allocConstants(heap, module.main.consts).addr))
    /\ UNCHANGED <<ast, pos, mainChunk, module, pc>>
    /\ UNCHANGED vmVars
    /\ UNCHANGED loadVars
    /\ UNCHANGED frontVars

\* One iteration of Run's loop in VM i.
stepped(i, r) ==
    /\ inst' = [inst EXCEPT ![i] = [vm |-> [r EXCEPT !.pools = <<>>],
                                    addr |-> inst[i].addr,
                                    steps |-> inst[i].steps + 1]]
    /\ heap' = [heap EXCEPT ![inst[i].addr] = r.pools[1]]

RunStep ==
    /\ pc = "two"
    /\ \E i \in 1..Len(inst) :
          /\ inst[i].vm.status = "running"
          /\ stepped(i, RunIteration(ViewOf(i)))
    /\ UNCHANGED <<ast, pos, mainChunk, module, pc>>
    /\ UNCHANGED vmVars
    /\ UNCHANGED loadVars
    /\ UNCHANGED frontVars

NextTwo == NewInstance \/ RunStep

SpecTwo == InitTwo /\ [][NextTwo]_vars

\* A VM made from the module and run alone, after n iterations of Run's loop.
SoloNext(m) == IF m.status # "running" THEN m ELSE RunIteration(m)

RECURSIVE SoloAfter(_)
SoloAfter(n) ==
    IF n = 0 THEN [NewVM(1).vm EXCEPT !.pools = <<module.main.consts>>]
    ELSE SoloNext(SoloAfter(n - 1))

(***************************************************************************)
(* The front end on its own: compileModule's lx := lexer.New(src);         *)
(* tokens := lx.Lex(), and the expression parser on the tokens.            *)
(***************************************************************************)
MaxText == 3        \* longest text of arbitrary runes
MaxLines == 4       \* most lines of an indented text
MaxIndent == 2      \* deepest indentation of a line, in spaces

Alphabet == {" ", "\t", "\n", "#", "a", "1", "/", "*", "\"", "="}

RECURSIVE TextsOf(_)
TextsOf(n) ==
    IF n = 0 THEN {<<>>}
    ELSE TextsOf(n - 1)
         \cup {Append(t, ch) : t \in {u \in TextsOf(n - 1) : Len(u) = n - 1},
                               ch \in Alphabet}

Spaces(n) == [i \in 1..n |-> " "]

\* The lines of an indented text: code at every depth, a blank line, a
\* comment line and a line indented with a tab.
LineShapes ==
    {Spaces(n) \o <<"a", "\n">> : n \in 0..MaxIndent}
    \cup {<<"\n">>, <<" ", "#", "a", "\n">>, <<"\t", "a", "\n">>}

RECURSIVE LinesOf(_)
LinesOf(n) ==
    IF n = 0 THEN {<<>>}
    ELSE LinesOf(n - 1)
         \cup {t \o ln : t \in {u \in LinesOf(n - 1) : u # <<>> \/ n = 1},
                         ln \in LineShapes}

\* The last line of a text may lack its newline.
WithoutLastNewline(t) == IF t = <<>> THEN t ELSE SubSeq(t, 1, Len(t) - 1)

\* Assignments: a target, an assignment operator and a value, alone, in
\* parentheses, as a call's argument or behind a binary operator.  plain
\* tells whether the target is a plain identifier.
Targets ==
    {[chars |-> <<"a">>, plain |-> TRUE],
     [chars |-> <<"a", "+", "b">>, plain |-> FALSE],
     [chars |-> <<"a", "*", "b">>, plain |-> FALSE],
     [chars |-> <<"f", "(", ")">>, plain |-> FALSE],
     [chars |-> <<"f", "(", "1", ")">>, plain |-> FALSE],
     [chars |-> <<"a", ".", "b">>, plain |-> FALSE],
     [chars |-> <<"(", "a", ")">>, plain |-> FALSE],
     [chars |-> <<"-", "a">>, plain |-> FALSE],
     [chars |-> <<"!", "a">>, plain |-> FALSE],
     [chars |-> <<"1">>, plain |-> FALSE],
     [chars |-> <<"\"", "a", "\"">>, plain |-> FALSE],
     [chars |-> <<"t", "r", "u", "e">>, plain |-> FALSE]}

AssignOpChars == {<<"=">>, <<"+", "=">>, <<"-", "=">>, <<"*", "=">>, <<"/", "=">>}

AssignValues == {<<"1">>, <<"b">>, <<"b", "=", "2">>, <<"b", "+", "1">>}

Contexts ==
    {[pre |-> <<>>, post |-> <<>>, plainKept |-> TRUE],
     [pre |-> <<"(">>, post |-> <<")">>, plainKept |-> TRUE],
     [pre |-> <<"f", "(">>, post |-> <<")">>, plainKept |-> TRUE],
     [pre |-> <<"x", "=">>, post |-> <<>>, plainKept |-> TRUE],
     [pre |-> <<"1", "+">>, post |-> <<>>, plainKept |-> FALSE],
     [pre |-> <<"-">>, post |-> <<>>, plainKept |-> FALSE]}

Assignments ==
    {[what |-> "assign", plain |-> t.plain /\ c.plainKept,
      chars |-> c.pre \o t.chars \o <<" ">> \o o \o <<" ">> \o v \o c.post] :
        t \in Targets, o \in AssignOpChars, v \in AssignValues, c \in Contexts}

Sources ==
    {[what |-> "text", plain |-> FALSE, chars |-> t] : t \in TextsOf(MaxText)}
    \cup {[what |-> "lines", plain |-> FALSE, chars |-> t] : t \in LinesOf(MaxLines)}
    \cup {[what |-> "lines", plain |-> FALSE, chars |-> WithoutLastNewline(t)] :
            t \in LinesOf(MaxLines)}
    \cup Assignments

\* compileModule has read no file yet.
InitFront ==
    /\ FrontIdle
    /\ pc = "read"
    /\ buf = <<>> /\ bufCap = 0 /\ intBits = 64 /\ loaded = NotLoaded
    /\ input = [what |-> "none", mod |-> EmptyModule]
    /\ heap = <<>> /\ inst = <<>>
    /\ ast = <<>> /\ pos = 1 /\ mainChunk = NewChunk /\ module = EmptyModule
    /\ code = MainRef /\ constants = MainRef
    /\ ip = 0 /\ sp = 0 /\ stack = <<>> /\ callStack = <<>>
    /\ pools = <<>>
    /\ status = "new" /\ err = "" /\ result = Nil
    /\ trace = <<>>

\* src, err := os.ReadFile(path); lx := lexer.New(string(src))
ReadSource ==
    /\ pc = "read"
    /\ \E s \in Sources :
          /\ source' = s
          /\ lexer' = NewLexer(s.chars)
    /\ pc' = "lex"
    /\ UNCHANGED <<lexed, parsed>>
    /\ UNCHANGED <<ast, pos, mainChunk, module>>
    /\ UNCHANGED vmVars
    /\ UNCHANGED loadVars
    /\ UNCHANGED twoVars

\* Lex's slice of tokens
tokens == [i \in 1..Len(lexed) |-> lexed[i].tok]

\* One round of Lex's loop: tok := l.nextToken(); tokens = append(tokens, tok);
\* the loop ends behind EOF.
Lex ==
    /\ pc = "lex"
    /\ lexer' = nextToken(lexer).l
    /\ lexed' = Append(lexed, [before |-> lexer, tok |-> nextToken(lexer).tok])
    /\ pc' = IF nextToken(lexer).tok.Type = "EOF" THEN "lexed" ELSE "lex"
    /\ UNCHANGED <<source, parsed>>
    /\ UNCHANGED <<ast, pos, mainChunk, module>>
    /\ UNCHANGED vmVars
    /\ UNCHANGED loadVars
    /\ UNCHANGED twoVars

\* The parser on the tokens: an expression is parsed from the first token.
\* A panic ends the compilation: nothing is handed to the emitter.
Parse ==
    /\ pc = "lexed"
    /\ parsed' = [done |-> TRUE,
                  panic |-> parseExpression(NewParser(tokens)).p.panic,
                  pos |-> parseExpression(NewParser(tokens)).p.pos,
                  expr |-> parseExpression(NewParser(tokens)).e]
    /\ pc' = "parsed"
    /\ UNCHANGED <<source, lexer, lexed>>
    /\ UNCHANGED <<ast, pos, mainChunk, module>>
    /\ UNCHANGED vmVars
    /\ UNCHANGED loadVars
    /\ UNCHANGED twoVars

NextFront == ReadSource \/ Lex \/ Parse

\* Lex and Parse are steps of one sequential program, which keeps running.
SpecFront == InitFront /\ [][NextFront]_vars /\ WF_vars(NextFront)

(***************************************************************************)
(* Observations on the history of a run.                                   *)
(***************************************************************************)
LastStep == trace[Len(trace)]

\* The 4-byte immediate of the instruction a trace entry fetched.
ImmAt(e) == Uint32(CodeOf(e.code), e.ip + 1)

\* Entry i is an OP_CALL executed at call depth d - 1 that pushed a frame.
IsCallInto(i, d) ==
    /\ i < Len(trace)
    /\ trace[i].op = OP_CALL /\ trace[i].depth = d - 1
    /\ trace[i + 1].depth = d

\* The call a return from depth d matches: the latest call that entered depth d.
MatchingCall(d) ==
    CHOOSE i \in 1..Len(trace) :
        IsCallInto(i, d) /\ \A j \in (i + 1)..Len(trace) : ~IsCallInto(j, d)

\* What the caller held when entry i fetched its OP_CALL: the values below
\* the arguments, the arguments, the function identifier on top.
BelowCount(i) == trace[i].sp - 1 - ImmAt(trace[i])
BelowOf(i) == SubSeq(trace[i].stack, 1, BelowCount(i))
ArgsOf(i) == SubSeq(trace[i].stack, BelowCount(i) + 1, trace[i].sp - 1)

\* The last iteration executed an OP_CALL that entered the callee.
Called == trace # <<>> /\ LastStep.op = OP_CALL /\ status = "running"

\* The last iteration executed an OP_RET that popped a frame.
Returned ==
    trace # <<>> /\ LastStep.op = OP_RET /\ LastStep.depth > 0 /\ status = "running"

(***************************************************************************)
(* C1.  Once the callee executes the return matching a call made with k    *)
(* caller values below the arguments, the operand stack is exactly those k *)
(* values, unchanged and in order, followed by the return value (the value *)
(* the callee pushed last): depth k + 1.                                   *)
(***************************************************************************)
C1_ReturnRestoresStack ==
    Returned =>
        LET i == MatchingCall(LastStep.depth)
            k == BelowCount(i)
        IN  /\ sp = k + 1
            /\ Len(stack) = k + 1
            /\ SubSeq(stack, 1, k) = BelowOf(i)
            /\ stack[k + 1] = LastStep.stack[Len(LastStep.stack)]

(***************************************************************************)
(* C2.  A return that has a frame to pop restores the active code, the     *)
(* active constant pool and the instruction pointer of the caller of the   *)
(* matching call, the instruction pointer just after the call's 4-byte     *)
(* argument-count immediate; frames are popped last-in-first-out, so the   *)
(* call depth is again that of the matching call.                          *)
(***************************************************************************)
C2_ReturnRestoresCaller ==
    Returned =>
        LET i == MatchingCall(LastStep.depth)
        IN  /\ code = trace[i].code
            /\ constants = trace[i].consts
            /\ ip = trace[i].ip + 5
            /\ Len(callStack) = trace[i].depth

\* The outer return of a nested pair: the inner call has returned before.
C2_Witness ==
    /\ Returned /\ LastStep.depth = 1
    /\ \E t \in 1..Len(trace) : trace[t].op = OP_RET /\ trace[t].depth = 2
    /\ code = MainRef /\ ip = trace[MatchingCall(1)].ip + 5

(***************************************************************************)
(* C3.  Immediately after a call with argument count n the callee's        *)
(* operand stack (what its pops read) is exactly the n argument values in  *)
(* push order, however many caller values lie below the arguments.         *)
(***************************************************************************)
C3_CalleeStackIsArgs ==
    Called =>
        /\ sp = ImmAt(LastStep)
        /\ Len(stack) >= sp
        /\ SubSeq(stack, 1, sp) = ArgsOf(Len(trace))

(***************************************************************************)
(* Observations on a run of an emitted program.  The marks in mainChunk    *)
(* give the offsets of each construct; code offsets count from 0.          *)
(***************************************************************************)
RunsEmitted == ast # <<>> /\ trace # <<>>

\* Entry e fetched an instruction of the main chunk at an offset in [a, b).
InRange(e, a, b) == e.code = MainRef /\ e.ip >= a /\ e.ip < b

\* The latest entry that fetched the main chunk's instruction at off.
LastVisit(off) ==
    CHOOSE i \in 1..Len(trace) :
        /\ InRange(trace[i], off, off + 1)
        /\ \A j \in (i + 1)..Len(trace) : ~InRange(trace[j], off, off + 1)

\* The entry with which the run entered [a, b) and has stayed there since.
StayStart(a, b) ==
    CHOOSE i \in 1..Len(trace) :
        /\ \A t \in i..Len(trace) : InRange(trace[t], a, b)
        /\ i = 1 \/ ~InRange(trace[i - 1], a, b)

\* How often the run fetched the instruction at off from entry i on.
VisitsSince(i, off) ==
    Cardinality({t \in i..Len(trace) : InRange(trace[t], off, off + 1)})

\* Instruction boundaries as Run's loop decodes them: the opcodes that call
\* readInt take five bytes, every other opcode one.
InstrLen(op) ==
    IF op \in {OP_CONST, OP_LOAD, OP_STORE, OP_CALL, OP_JMP, OP_JMPF} THEN 5 ELSE 1

RECURSIVE InstrStartsFrom(_, _)
InstrStartsFrom(c, i) ==
    IF i >= Len(c) THEN {} ELSE {i} \cup InstrStartsFrom(c, i + InstrLen(c[i + 1]))

InstrStarts(c) == InstrStartsFrom(c, 0)

\* Emit has returned: the chunk is finished.
Finished == ast # <<>> /\ pc # "emit" /\ mainChunk.panic = ""

(***************************************************************************)
(* C4.  When the call opcode emitted for a call expression with n          *)
(* arguments executes, the immediate is n and the value on top of the      *)
(* stack was pushed after the n argument values: the stack is at least     *)
(* n + 1 deeper than when the call expression began, so the identifier the *)
(* engine pops is none of the arguments.                                   *)
(***************************************************************************)
C4_CalleeIdAboveArgs ==
    \A x \in 1..Len(mainChunk.calls) :
        LET m == mainChunk.calls[x]
        IN  (RunsEmitted /\ LastStep.op = OP_CALL /\ InRange(LastStep, m.callPos, m.callPos + 1))
            => /\ ImmAt(LastStep) = m.n
               /\ LastStep.sp >= trace[LastVisit(m.argStart)].sp + m.n + 1

(***************************************************************************)
(* C5.  When control leaves a counted loop whose limit is a non-negative   *)
(* number N, the body has been entered exactly N times since the limit was *)
(* evaluated, and the induction value is >= the limit.                     *)
(***************************************************************************)
C5_ForRunsBodyNTimes ==
    \A x \in 1..Len(mainChunk.fors) :
        LET m == mainChunk.fors[x]
        IN  (/\ RunsEmitted /\ status = "running" /\ code = MainRef
             /\ InRange(LastStep, m.exitPos - 1, m.exitPos) /\ ip = m.end
             /\ IsNum(pools[1][m.limitSlot + 1]) /\ pools[1][m.limitSlot + 1].n >= 0)
            => /\ VisitsSince(LastVisit(m.limitStart), m.bodyStart)
                    = pools[1][m.limitSlot + 1].n
               /\ pools[1][m.iSlot + 1].n >= pools[1][m.limitSlot + 1].n

(***************************************************************************)
(* C6.  In the code of a counted loop the limit expression lies entirely   *)
(* before the loop start and is followed by a store to a slot no other     *)
(* store or constant load uses; the back jump targets the loop start,      *)
(* which is past the limit expression; and in a run the limit expression   *)
(* is never entered from inside the loop, so it is evaluated once however  *)
(* many iterations execute.                                                *)
(***************************************************************************)
C6_LimitEvaluatedOnce ==
    \A x \in 1..Len(mainChunk.fors) :
        LET m == mainChunk.fors[x]
            c == mainChunk.Code
        IN  /\ m.limitStart < m.limitEnd
            /\ c[m.limitEnd + 1] = OP_STORE
            /\ Uint32(c, m.limitEnd + 1) = m.limitSlot
            /\ m.limitEnd + 5 <= m.loopStart
            /\ c[m.backJmp + 1] = OP_JMP
            /\ Uint32(c, m.backJmp + 1) = m.loopStart
            /\ Uint32(c, m.backJmp + 1) >= m.limitEnd
            /\ \A i \in InstrStarts(c) :
                    (c[i + 1] \in {OP_CONST, OP_LOAD, OP_STORE}
                        /\ Uint32(c, i + 1) = m.limitSlot)
                    => i = m.limitEnd \/ (i = m.loopStart + 5 /\ c[i + 1] = OP_LOAD)
            /\ (RunsEmitted /\ Len(trace) >= 2
                    /\ InRange(LastStep, m.limitStart, m.limitEnd + 5))
                => ~InRange(trace[Len(trace) - 1], m.loopStart, m.end)

\* A counted loop is in its third iteration and its limit was evaluated once.
C6_Witness ==
    \E x \in 1..Len(mainChunk.fors) :
        LET m == mainChunk.fors[x]
        IN  /\ RunsEmitted
            /\ InRange(LastStep, m.loopStart, m.end)
            /\ VisitsSince(1, m.bodyStart) >= 3
            /\ VisitsSince(1, m.limitStart) = 1

(***************************************************************************)
(* C7.  In a run of a compiled conditional the jump after the condition    *)
(* continues at A when the condition is a non-zero Number and at B (or,    *)
(* with no else branch, after the conditional) when it is 0; instructions  *)
(* of A execute only after a non-zero condition and instructions of B only *)
(* after a zero one; and control leaves the conditional only to the first  *)
(* instruction after it.                                                   *)
(***************************************************************************)
CondOf(m) == trace[LastVisit(m.jumpPos - 1)].stack[trace[LastVisit(m.jumpPos - 1)].sp]

C7_IfRunsOneBranch ==
    \A x \in 1..Len(mainChunk.ifs) :
        LET m == mainChunk.ifs[x]
        IN  RunsEmitted =>
            /\ (InRange(LastStep, m.jumpPos - 1, m.jumpPos) /\ status = "running")
                => ip = IF CondOf(m).n = 0 THEN m.elseStart ELSE m.thenStart
            /\ InRange(LastStep, m.thenStart, m.thenEnd) => CondOf(m).n # 0
            /\ InRange(LastStep, m.elseStart, m.elseEnd) => CondOf(m).n = 0
            /\ (/\ InRange(LastStep, m.condStart, m.end) /\ status = "running"
                /\ ~(code = MainRef /\ ip >= m.condStart /\ ip < m.end))
                => code = MainRef /\ ip = m.end

\* The else branch of a conditional has just run to its end after a zero
\* condition, and control is at the first instruction after the conditional.
C7_Witness ==
    \E x \in 1..Len(mainChunk.ifs) :
        LET m == mainChunk.ifs[x]
        IN  /\ RunsEmitted /\ status = "running"
            /\ m.hasElse /\ m.elseStart < m.elseEnd
            /\ InRange(LastStep, m.elseStart, m.elseEnd)
            /\ CondOf(m).n = 0
            /\ ip = m.end

(***************************************************************************)
(* C8.  Whenever the emitter has compiled a statement, every byte of a     *)
(* 4-byte placeholder has been written exactly twice (appended as 0, then  *)
(* overwritten once) and every other byte exactly once; and in the         *)
(* finished chunk the operand of every jump is an offset inside the code   *)
(* at which an instruction starts.                                         *)
(***************************************************************************)
HoleBytes(c) == {h + b : h \in c.holes, b \in 1..4}

C8_JumpsPatchedOnce ==
    LET c == mainChunk
    IN  /\ c.panic = "" =>
            \A i \in 1..Len(c.Code) :
                c.writes[i] = IF i \in HoleBytes(c) THEN 2 ELSE 1
        /\ Finished =>
            \A i \in InstrStarts(c.Code) :
                c.Code[i + 1] \in {OP_JMP, OP_JMPF}
                => /\ Uint32(c.Code, i + 1) < Len(c.Code)
                   /\ Uint32(c.Code, i + 1) \in InstrStarts(c.Code)

\* A finished chunk with nested constructs: three placeholders or more,
\* all patched, and a jump whose target is not 0.
C8_Witness ==
    /\ Finished
    /\ Cardinality(mainChunk.holes) >= 3
    /\ \A h \in mainChunk.holes : Uint32(mainChunk.Code, h) > 0
    /\ \A i \in HoleBytes(mainChunk) : mainChunk.writes[i] = 2

(***************************************************************************)
(* C9.  When a run has executed the instructions emitted for an            *)
(* expression from its first to its end, the operand stack is exactly one  *)
(* value deeper than when the expression began, with everything below      *)
(* unchanged.                                                              *)
(***************************************************************************)
C9_ExprPushesOne ==
    \A x \in 1..Len(mainChunk.exprs) :
        LET m == mainChunk.exprs[x]
        IN  (/\ RunsEmitted /\ status = "running" /\ code = MainRef /\ ip = m.end
             /\ InRange(LastStep, m.start, m.end)
             /\ trace[StayStart(m.start, m.end)].ip = m.start)
            => LET e == trace[StayStart(m.start, m.end)]
               IN  /\ sp = e.sp + 1
                   /\ Len(stack) = sp
                   /\ SubSeq(stack, 1, e.sp) = SubSeq(e.stack, 1, e.sp)

(***************************************************************************)
(* C10.  A statement other than return and exit that a run entered at its  *)
(* first instruction with the stack at depth d never takes a value from    *)
(* below d (the run does not fail with a stack underflow inside the        *)
(* statement), and when the run reaches the statement's end the stack is   *)
(* at depth d again.                                                       *)
(***************************************************************************)
C10_StmtKeepsDepth ==
    \A x \in 1..Len(mainChunk.stmts) :
        LET m == mainChunk.stmts[x]
        IN  (/\ RunsEmitted
             /\ m.Kind \in {"ExprStmt", "LetStmt", "PassStmt", "IfStmt",
                            "WhileStmt", "ForStmt"}
             /\ InRange(LastStep, m.start, m.end)
             /\ trace[StayStart(m.start, m.end)].ip = m.start)
            => /\ ~(status = "panic" /\ err = "Stack underflow")
               /\ (status = "running" /\ code = MainRef /\ ip = m.end)
                    => sp = trace[StayStart(m.start, m.end)].sp /\ Len(stack) = sp


(***************************************************************************)
(* Observations of the loader.                                             *)
(***************************************************************************)
\* loadModule returned: New hands out a VM.
LoadedOK == Decoded /\ loaded.err = ""

\* C11: decoding the encoding of a module yields the module again.  Of a
\* decoded module loadModule keeps the main chunk (the function table is
\* walked over and resolved later, call by call), so the statement is about
\* the main chunk reached behind the function table: decoding succeeds, and
\* every constant has the kind and the value it was encoded from and the
\* code is the code that was encoded, for every function table in front.
C11_DecodeInvertsEncode ==
    (Decoded /\ input.what = "module") =>
        /\ loaded.err = ""
        /\ loaded.constants = input.mod.main.consts
        /\ loaded.code = input.mod.main.code

\* C12: a module with one length-prefixed region shortened is never loaded:
\* loadModule panics, and no slice it takes reaches past the end of the
\* buffer.  (Any panic counts as the failure here, the loader's own or a
\* bounds panic of the runtime.)
C12_ShortenedFails ==
    (Decoded /\ input.what = "shortened") =>
        /\ loaded.err # ""
        /\ ~loaded.beyond

\* The header of buf differs from "KBC", 2 in a byte that is there.
BadMagic == Len(buf) >= 3 /\ SubSeq(buf, 1, 3) # Magic
BadVersion == Len(buf) >= 4 /\ SubSeq(buf, 1, 3) = Magic /\ buf[4] # Version

\* C13: a buffer whose first three bytes are not "KBC", or whose fourth byte
\* is not 2, is refused with the loader's header error (wrong magic) or
\* version error (wrong version) before any field behind the header is
\* read: the offset has not left the header, no constant and no code has
\* been set, and New hands out no VM.
C13_BadHeaderRefused ==
    (Decoded /\ (BadMagic \/ BadVersion)) =>
        /\ loaded.err = IF BadMagic THEN "Invalid bytecode header"
                        ELSE "Unsupported KBC version"
        /\ loaded.fields = 0 /\ loaded.off = 0
        /\ loaded.constants = <<>> /\ loaded.code = <<>>
        /\ ~LoadedOK

\* A module with a function table and main code behind a header whose
\* version byte is wrong has been refused.
C13_Witness ==
    /\ Decoded /\ BadVersion
    /\ input.mod.fns # <<>> /\ input.mod.main.code # <<>>
    /\ loaded.err = "Unsupported KBC version"

(***************************************************************************)
(* Observations of single instructions.  LastStep is the instruction that  *)
(* has just executed, with the machine it was fetched in; its operands are *)
(* the values its pops read: stack[sp], then stack[sp - 1].                *)
(***************************************************************************)
Ran == Len(trace) > 0

HasOperands(e, n) == e.sp >= n /\ Len(e.stack) >= e.sp

TopOperand(e) == e.stack[e.sp]
SecondOperand(e) == e.stack[e.sp - 1]

TypedOps == ArithOps \cup {OP_NOT}

\* An opcode that asks for Numbers was given an operand that is not one.
IllTyped(e) ==
    /\ e.op \in TypedOps
    /\ \/ HasOperands(e, 1) /\ ~IsNum(TopOperand(e))
       \/ e.op \in ArithOps /\ HasOperands(e, 2) /\ ~IsNum(SecondOperand(e))

\* C14: when an arithmetic, relational or logical opcode executes with an
\* operand that is a Text or an Integer, the run ends there with a type
\* error (the failed conversion to float64): nothing has been pushed (the
\* stack is a proper prefix of the stack the opcode found) and the run is
\* over, so no later instruction executes.
C14_IllTypedOperandEndsRun ==
    (Ran /\ IllTyped(LastStep)) =>
        /\ status = "panic" /\ err = "interface conversion"
        /\ pc = "done"
        /\ Len(stack) < LastStep.sp
        /\ stack = SubSeq(LastStep.stack, 1, Len(stack))

\* A relational opcode has just failed on an Integer and a Number.
C14_Witness ==
    /\ Ran /\ LastStep.op = OP_LT /\ HasOperands(LastStep, 2)
    /\ SecondOperand(LastStep) = IntV(1) /\ TopOperand(LastStep) = Num(1)
    /\ status = "panic" /\ err = "interface conversion"

\* Two Values are the same: the same kind, and the same text (Text) or the
\* same number (Number, Integer).
SameValue(a, b) ==
    /\ a.k = b.k
    /\ IF a.k = "str" THEN a.s = b.s ELSE a.n = b.n

PopsOf(op) ==
    IF op \in ArithOps \cup {OP_EQ, OP_NEQ} THEN 2
    ELSE IF op \in {OP_NOT, OP_POP, OP_JMPF, OP_STORE, OP_CALL, OP_RET} THEN 1
    ELSE 0

ImmReadable(e) ==
    e.op \in {OP_JMPF, OP_STORE, OP_CALL} => e.ip + 5 <= Len(CodeOf(e.code))

\* The instruction comes to a pop with the activation's operand stack
\* empty (sp = 0): at its first pop, or at its second after a first pop
\* that went through.
PopsEmpty(e) ==
    /\ PopsOf(e.op) > 0 /\ ImmReadable(e)
    /\ \/ e.sp = 0
       \/ /\ PopsOf(e.op) = 2 /\ HasOperands(e, 1) /\ e.sp = 1
          /\ e.op \in ArithOps => IsNum(TopOperand(e))

\* C16: at any activation depth, before or after calls and returns, an
\* opcode that comes to a pop while the current activation holds no operand
\* ends the run with the stack-underflow error: not with an index panic,
\* and not by going on with a value the slice still holds below (a
\* caller's, or a stale one).
C16_EmptyPopUnderflows ==
    (Ran /\ PopsEmpty(LastStep)) =>
        /\ status = "panic" /\ err = "Stack underflow"
        /\ pc = "done"

\* A return inside a callee that holds no operand, over a slice that still
\* holds the caller's values, has ended the run with the underflow error.
C16_Witness ==
    /\ Ran /\ LastStep.op = OP_RET /\ LastStep.depth = 1
    /\ LastStep.sp = 0 /\ Len(LastStep.stack) > 0
    /\ status = "panic" /\ err = "Stack underflow"

\* C17: the halt opcode ends the run where it stands, at any depth: the
\* run is over with no value, no frame has been popped and the active code
\* and the stack are those of the activation that halted; and a run that has
\* ended by halt executed nothing after the halt.
C17_HaltEndsRun ==
    /\ (Ran /\ LastStep.op = OP_EXIT) =>
            /\ status = "exited" /\ pc = "done"
            /\ result = Nil
            /\ Len(callStack) = LastStep.depth
            /\ code = LastStep.code /\ constants = LastStep.consts
            /\ stack = LastStep.stack /\ sp = LastStep.sp
    /\ status = "exited" => (Ran /\ LastStep.op = OP_EXIT)

\* A halt with two frames pending has ended the run.
C17_Witness ==
    /\ Ran /\ LastStep.op = OP_EXIT /\ LastStep.depth = 2
    /\ status = "exited" /\ Len(callStack) = 2 /\ result = Nil

\* C18: a return executed with no frame on the call stack and a value on
\* the operand stack ends the run, and the run's result is that value, the
\* top of the stack; a return executed with a frame on the call stack does
\* not end the run with a result, and with a value to return the run goes
\* on in the caller.
C18_OuterReturnYieldsTop ==
    (Ran /\ LastStep.op = OP_RET) =>
        /\ (LastStep.depth = 0 /\ LastStep.sp >= 1) =>
                /\ status = "returned" /\ pc = "done"
                /\ HasOperands(LastStep, 1)
                /\ result = TopOperand(LastStep)
        /\ LastStep.depth > 0 =>
                /\ status # "returned"
                /\ LastStep.sp >= 1 =>
                        status = "running" /\ Len(callStack) = LastStep.depth - 1

IsSlotOp(off) == mainChunk.Code[off + 1] \in {OP_LOAD, OP_STORE}
SlotAt(off) == Uint32(mainChunk.Code, off + 1)
NameAt(off) == mainChunk.Constants[SlotAt(off) + 1]

\* Entry i is the last store to the name of the load at offset off that
\* executed before the instruction executed last.
LastStoreOf(i, off) ==
    /\ i < Len(trace) /\ trace[i].op = OP_STORE /\ HasOperands(trace[i], 1)
    /\ NameAt(trace[i].ip) = NameAt(off)
    /\ \A j \in (i + 1)..(Len(trace) - 1) :
            ~(trace[j].op = OP_STORE /\ NameAt(trace[j].ip) = NameAt(off))

\* C20: in a finished chunk every load and store emitted for one name
\* addresses one slot; and when a load of a name executes after a store to
\* that name, the value it pushes is the value stored last.
C20_NameHasOneSlot ==
    /\ Finished =>
            \A a, b \in InstrStarts(mainChunk.Code) :
                (IsSlotOp(a) /\ IsSlotOp(b) /\ NameAt(a) = NameAt(b))
                    => SlotAt(a) = SlotAt(b)
    /\ (RunsEmitted /\ LastStep.op = OP_LOAD /\ status = "running") =>
            \A i \in 1..Len(trace) :
                LastStoreOf(i, LastStep.ip)
                    => stack[Len(stack)] = TopOperand(trace[i])


(***************************************************************************)
(* Call-stack effect of one iteration of Run.                              *)
(***************************************************************************)
\* The call stack after the step is the one before with one frame added.
OneFrameMore ==
    /\ Len(callStack') = Len(callStack) + 1
    /\ SubSeq(callStack', 1, Len(callStack)) = callStack

\* The call stack after the step is the one before without its top frame.
OneFrameLess ==
    /\ callStack # <<>>
    /\ callStack' = SubSeq(callStack, 1, Len(callStack) - 1)

\* C21: the call stack changes only through Call and Return: a call opcode
\* that executes lengthens it by exactly one frame (the saved frames below
\* stay as they were), a return opcode that executes on a non-empty call
\* stack shortens it by exactly one frame, and every other opcode, like a
\* call or return that panics before reaching the frame, leaves the length
\* and every saved frame unchanged.
C21_CallStackOnlyByCallAndReturn ==
    [][(pc = "run" /\ status = "running") =>
          CASE Fetched = OP_CALL ->
                   /\ status' = "running" => OneFrameMore
                   /\ status' # "running" => OneFrameMore \/ callStack' = callStack
            [] Fetched = OP_RET /\ callStack # <<>> ->
                   /\ status' = "running" => OneFrameLess
                   /\ status' # "running" => callStack' = callStack
            [] OTHER -> callStack' = callStack]_vars

\* A call has pushed a frame and a later return has taken one off again.
C21_Witness ==
    /\ Ran /\ status = "running"
    /\ LastStep.op = OP_RET /\ LastStep.depth = 2 /\ Len(callStack) = 1
    /\ \E i \in 1..Len(trace) - 1 :
          trace[i].op = OP_CALL /\ trace[i + 1].depth = trace[i].depth + 1

\* C25: in every reachable state of Run the stack pointer equals the length
\* of the operand stack slice, also right after callFunction and right
\* after returnFromFunction.
C25_SpIsStackLen ==
    pc = "run" => sp = Len(stack)

\* The same on runs that have executed no call opcode.
C25_SpIsStackLenWithoutCalls ==
    (pc = "run" /\ \A i \in 1..Len(trace) : trace[i].op # OP_CALL)
        => sp = Len(stack)

\* C26: for every call the compiler's call-expression path emits, the Frame
\* that Call pushes records a stack base between 0 and the size of the
\* operand stack at the time of the call, and Call's reads of the operand
\* stack stay inside it (no index-out-of-range failure).
C26_FrameBaseInRange ==
    (RunsEmitted /\ LastStep.op = OP_CALL /\ LastStep.code = MainRef)
        => /\ err # "index out of range"
           /\ Len(callStack) > LastStep.depth
                 => /\ callStack[Len(callStack)].spBackup >= 0
                    /\ callStack[Len(callStack)].spBackup <= LastStep.sp

\* The same for calls that have the callee's identifier above the arguments
\* (the modules built by CallerMain).
C26_FrameBaseInRangeWithId ==
    (ast = <<>> /\ Ran /\ LastStep.op = OP_CALL /\ LastStep.code = MainRef)
        => /\ err # "index out of range"
           /\ Len(callStack) > LastStep.depth
                 => /\ callStack[Len(callStack)].spBackup >= 0
                    /\ callStack[Len(callStack)].spBackup <= LastStep.sp

\* C27: the code emitted for a counted loop reaches the instruction after
\* the loop for every limit, zero and negative included: the guard lets
\* control into the body only while the induction value is below the limit,
\* so the distance from the induction value to the limit, which each
\* iteration shortens by one, bounds the iterations still to come.
C27_ForLoopEnds ==
    \A x \in 1..Len(mainChunk.fors) :
        LET m == mainChunk.fors[x]
        IN  (/\ RunsEmitted /\ status = "running" /\ code = MainRef
             /\ InRange(LastStep, m.exitPos - 1, m.exitPos) /\ ip = m.bodyStart
             /\ IsNum(pools[1][m.limitSlot + 1]))
            => pools[1][m.iSlot + 1].n < pools[1][m.limitSlot + 1].n

\* A counted loop with limit 0 and body `pass` is still iterating when the
\* run has executed MaxSteps instructions: the induction value has passed
\* the limit and the guard has never left the loop.
C27_StillLooping ==
    \E x \in 1..Len(mainChunk.fors) :
        LET m == mainChunk.fors[x]
        IN  /\ RunsEmitted /\ status = "running" /\ Len(trace) = MaxSteps
            /\ Len(ast) = 1 /\ ast[1].Kind = "ForStmt" /\ ast[1].Limit = Lit(0)
            /\ ast[1].Body = <<PassStmt>>
            /\ pools[1][m.iSlot + 1].n > pools[1][m.limitSlot + 1].n
            /\ \A j \in 1..Len(trace) : trace[j].ip # m.end

\* The last instruction of the main chunk: the return Emit appends.
FinalRet == Len(mainChunk.Code) - 1

\* C28: when a run of a module emitted for a program of let, expression,
\* pass, if, while and for statements reaches the implicit final return,
\* the operand stack holds a value to pop and the return does not fail with
\* a stack underflow.
C28_FinalReturnHasValue ==
    (RunsEmitted /\ LastStep.code = MainRef /\ LastStep.ip = FinalRet
        /\ LastStep.depth = 0)
        => /\ LastStep.op = OP_RET
           /\ LastStep.sp >= 1
           /\ ~(status = "panic" /\ err = "Stack underflow")

\* Every run that reaches the final return fails there.
C28_FinalReturnAlwaysFails ==
    (RunsEmitted /\ LastStep.code = MainRef /\ LastStep.ip = FinalRet
        /\ LastStep.depth = 0)
        => status = "panic"

\* C23: the bytes the command-line compiler writes to the .kbc file are a
\* valid header for the loader: neither its magic check nor its version
\* check refuses them.
C23_CompiledHeaderAccepted ==
    (Decoded /\ input.what = "compiled") =>
        /\ loaded.err # "Invalid bytecode header"
        /\ loaded.err # "Unsupported KBC version"

(***************************************************************************)
(* Observations of the front end.                                          *)
(***************************************************************************)
\* The parser has answered (a node or a panic).
Parsed == pc = "parsed"

\* C22: an assignment whose target is not a plain identifier (a binary or
\* unary expression, a call, a member access, a parenthesised expression, a
\* literal) is rejected with the parser's error: no node comes back, so no
\* assignment node exists, and nothing reaches the emitter, so no store is
\* emitted for it.
C22_NonIdentifierTargetRejected ==
    (Parsed /\ source.what = "assign" /\ ~source.plain) =>
        /\ parsed.panic = "Left side of assignment must be an identifier"
        /\ parsed.expr = NoExpr
        /\ ast = <<>> /\ mainChunk = NewChunk

\* The assignment a + b = 1 has been parsed and rejected.
C22_Witness ==
    /\ Parsed /\ source.what = "assign" /\ ~source.plain
    /\ source.chars = <<"a", "+", "b", " ", "=", " ", "1">>
    /\ parsed.panic # ""

\* Assignments to a plain identifier are parsed into assignment nodes.
C22_PlainTargetAccepted ==
    (Parsed /\ source.what = "assign" /\ source.plain) => parsed.panic = ""

\* Number of tokens of a type among the first n tokens.
CountOf(type, n) == Cardinality({i \in 1..n : tokens[i].Type = type})

\* The indentation of the line the lexer stands in front of.
LineIndent(l) == indentEnd(l, 0).count

\* The lexer state b stands at the start of a line that carries a token.
AtCodeLine(b) == b.startOfLine /\ ~blankOrComment(indentEnd(b, 0).l)

\* Levels of the indent stack deeper than the indentation c.
LevelsAbove(l, c) ==
    Cardinality({i \in 2..Len(l.indentStack) : l.indentStack[i] > c})

\* C24: when a line is indented less than the top of the indent stack, the
\* levels deeper than the line are popped and one DEDENT is answered for
\* each before the line's first ordinary token: a line that dedents by k
\* levels is preceded by k DEDENT tokens, and behind them the top of the
\* stack is no deeper than the line.
C24_DedentPerLevel ==
    \A i \in 1..Len(lexed) :
        LET b == lexed[i].before
            k == LevelsAbove(b, LineIndent(b))
        IN  (AtCodeLine(b) /\ LineIndent(b) < currentIndent(b)) =>
                /\ \A j \in 1..k :
                      i + j - 1 <= Len(lexed) => lexed[i + j - 1].tok.Type = "DEDENT"
                /\ i + k <= Len(lexed) =>
                      /\ lexed[i + k].tok.Type \notin {"DEDENT", "INDENT"}
                      /\ currentIndent(lexed[i + k].before) <= LineIndent(b)

\* The same for lines that dedent by one level to a level of the stack.
C24_DedentOneLevel ==
    \A i \in 1..Len(lexed) :
        LET b == lexed[i].before
        IN  (/\ AtCodeLine(b) /\ LineIndent(b) < currentIndent(b)
             /\ LevelsAbove(b, LineIndent(b)) = 1
             /\ b.indentStack[Len(b.indentStack) - 1] = LineIndent(b)) =>
                /\ lexed[i].tok.Type = "DEDENT"
                /\ i + 1 <= Len(lexed) => lexed[i + 1].tok.Type \notin {"DEDENT", "INDENT"}

\* C29: in every state of the lexer the indent stack is non-empty, its
\* bottom element is 0 and its elements increase strictly from bottom to
\* top; so the bottom element is never popped.
C29_IndentStackShape ==
    pc \in {"lex", "lexed", "parsed"} =>
        /\ Len(lexer.indentStack) >= 1
        /\ lexer.indentStack[1] = 0
        /\ \A i \in 1..Len(lexer.indentStack) - 1 :
              lexer.indentStack[i] < lexer.indentStack[i + 1]

\* Two levels were opened and closed again: the stack is back at <<0>>.
C29_Witness ==
    /\ pc = "lexed" /\ lexer.indentStack = <<0>>
    /\ CountOf("INDENT", Len(lexed)) >= 2 /\ CountOf("DEDENT", Len(lexed)) >= 2

\* What is left for Lex to do: runes to read (twice, so that a level opened
\* by the runes of an indentation is paid for), levels to close and the
\* start of a line to handle.
LexMeasure ==
    2 * (Len(lexer.src) - lexer.pos) + Len(lexer.indentStack)
        + (IF lexer.startOfLine THEN 1 ELSE 0)

\* C30: Lex terminates, for every text: every round of its loop either
\* answers EOF, which ends the loop, or leaves strictly less to do, and what
\* is left is never negative.  The token sequence ends with EOF and holds no
\* other EOF; in every prefix there are at most as many DEDENT as INDENT
\* tokens, and in the whole sequence as many.
C30_LexEndsBalanced ==
    /\ [][pc = "lex" =>
            /\ pc' = "lexed" \/ LexMeasure' < LexMeasure
            /\ LexMeasure' >= 0]_vars
    /\ [](pc \in {"lex", "lexed", "parsed"} =>
            /\ \A n \in 0..Len(lexed) : CountOf("DEDENT", n) <= CountOf("INDENT", n)
            /\ \A n \in 1..Len(lexed) - 1 : tokens[n].Type # "EOF"
            /\ pc # "lex" =>
                  /\ lexed # <<>> /\ tokens[Len(lexed)].Type = "EOF"
                  /\ CountOf("DEDENT", Len(lexed)) = CountOf("INDENT", Len(lexed)))

\* Lex has returned for a text with two nested levels of indentation.
C30_Witness ==
    /\ pc = "lexed" /\ tokens[Len(lexed)].Type = "EOF"
    /\ CountOf("INDENT", Len(lexed)) = 2 /\ source.what = "lines"

====
